---- MODULE Spec2Model ----
(***************************************************************************)
(* State-machine model of seastar's promise / future / continuation core   *)
(* (include/seastar/core/future.hh).  Objects live in three heaps indexed  *)
(* by allocation order; pointers are heap indices (0 = nullptr) or cell    *)
(* locations <<kind, index>>.                                              *)
(***************************************************************************)
EXTENDS Integers, Sequences, FiniteSets, TLC

\* ---------------------------------------------------------------- bounds
\* the number of operations the program applies to its promises and futures
MaxOps == 5
\* the number of then / then_wrapped calls among them
MaxThen == 2

\* ------------------------------------------------------------ input sets
Values == {1, 2}
Excs == {"E1"}
Funcs == {"inc", "throw"}
WrappedFuncs == {"inc"}
BrokenPromise == "broken_promise"
FuncExc == "EF"

VARIABLES promises, futures, tasks, queue, chans, crashed, reports, blocked, ops, ran

vars == <<promises, futures, tasks, queue, chans, crashed, reports, blocked, ops, ran>>

\* ----------------------------------------------------------- value cell
\* future_state_base::state; every exception_ptr value is >= exception_min
Pending == [st |-> "future", v |-> 0, ex |-> ""]
Invalid == [st |-> "invalid", v |-> 0, ex |-> ""]
ValueCell(v) == [st |-> "result", v |-> v, ex |-> ""]
ExcCell(e) == [st |-> "exception", v |-> 0, ex |-> e]

available(c) == c.st = "result" \/ c.st = "exception"
failed(c) == c.st = "exception"

NullLoc == <<"null", 0>>
LocalLoc(p) == <<"plocal", p>>
FutLoc(f) == <<"fut", f>>
TaskLoc(t) == <<"task", t>>

\* the whole program state as one record, threaded through the handlers
Heap == [pr |-> promises, fu |-> futures, tk |-> tasks, q |-> queue, ch |-> chans,
         crashed |-> crashed, reports |-> reports, blocked |-> blocked]

Ok(H) == H.crashed = ""

\* a failed assert() aborts the program: nothing after it takes effect
Abort(H, why) == IF Ok(H) THEN [H EXCEPT !.crashed = why] ELSE H

CellAt(H, loc) ==
    CASE loc[1] = "plocal" -> H.pr[loc[2]].local
      [] loc[1] = "fut" -> H.fu[loc[2]].st
      [] loc[1] = "task" -> H.tk[loc[2]].cell
      [] OTHER -> Invalid

SetCellAt(H, loc, c) ==
    CASE loc[1] = "plocal" -> [H EXCEPT !.pr[loc[2]].local = c]
      [] loc[1] = "fut" -> [H EXCEPT !.fu[loc[2]].st = c]
      [] loc[1] = "task" -> [H EXCEPT !.tk[loc[2]].cell = c]
      [] OTHER -> H

\* future_state::set
state_set(H, loc, v) ==
    IF ~Ok(H) THEN H
    ELSE IF CellAt(H, loc).st # "future" THEN Abort(H, "assert_set_pending")
    ELSE SetCellAt(H, loc, ValueCell(v))

\* future_state_base::set_exception
state_set_exception(H, loc, e) ==
    IF ~Ok(H) THEN H
    ELSE IF CellAt(H, loc).st # "future" THEN Abort(H, "assert_set_exception_pending")
    ELSE SetCellAt(H, loc, ExcCell(e))

\* future_state_base::set_to_broken_promise (declared only)
set_to_broken_promise(H, loc) == state_set_exception(H, loc, BrokenPromise)

\* ------------------------------------------------------------- scheduler
\* ::seastar::schedule appends to the FIFO, schedule_urgent prepends
schedule(H, t) ==
    IF ~Ok(H) THEN H ELSE [H EXCEPT !.q = Append(@, t), !.tk[t].enq = @ + 1, !.tk[t].urgent = FALSE]

schedule_urgent(H, t) ==
    IF ~Ok(H) THEN H ELSE [H EXCEPT !.q = <<t>> \o @, !.tk[t].enq = @ + 1, !.tk[t].urgent = TRUE]

\* ---------------------------------------------------------------- promise
\* chan is the logical promise/future pair the object belongs to (0 once the
\* object was moved from); user tells the program's own promises from the
\* ones captured by continuations; gave is history: "yes" once get_future
\* succeeded on the object, "reassigned" once such an object was the target
\* of a move assignment and has not given a future since
NewPromiseRec(c, user) ==
    [alive |-> TRUE, future |-> 0, state |-> NullLoc, task |-> 0, local |-> Pending,
     chan |-> c, user |-> user, gave |-> "no"]

\* promise::promise(): _state = &_local_state
AllocPromise(H, c, user) ==
    LET p == Len(H.pr) + 1
    IN [H EXCEPT !.pr = Append(@, [NewPromiseRec(c, user) EXCEPT !.state = LocalLoc(p)])]

\* make_ready that enqueues the task but keeps holding it
make_ready_keeps_task(H, p, urgent, np) ==
    IF ~Ok(H) THEN H
    ELSE IF H.pr[p].task # 0
    THEN IF urgent /\ ~np THEN schedule_urgent(H, H.pr[p].task) ELSE schedule(H, H.pr[p].task)
    ELSE H

\* make_ready that clears the cell pointer whether or not a task is held
make_ready_clears_state(H, p, urgent, np) ==
    IF ~Ok(H) THEN H
    ELSE LET t == H.pr[p].task
             H1 == [H EXCEPT !.pr[p].state = NullLoc, !.pr[p].task = 0]
         IN IF t = 0 THEN H1
            ELSE IF urgent /\ ~np THEN schedule_urgent(H1, t) ELSE schedule(H1, t)

\* make_ready that takes the urgent path without asking need_preempt()
make_ready_ignores_preempt(H, p, urgent, np) ==
    IF ~Ok(H) THEN H
    ELSE IF H.pr[p].task # 0
    THEN LET t == H.pr[p].task
             H1 == [H EXCEPT !.pr[p].state = NullLoc, !.pr[p].task = 0]
         IN IF urgent THEN schedule_urgent(H1, t) ELSE schedule(H1, t)
    ELSE H

\* promise::make_ready<Urgent>; np is the answer of need_preempt()
make_ready(H, p, urgent, np) ==
    IF ~Ok(H) THEN H
    ELSE IF H.pr[p].task # 0
    THEN LET t == H.pr[p].task
             H1 == [H EXCEPT !.pr[p].state = NullLoc, !.pr[p].task = 0]
         IN IF urgent /\ ~np THEN schedule_urgent(H1, t) ELSE schedule(H1, t)
    ELSE H

\* history: the first fulfilling call made on a promise of a channel, and
\* whether more than one was made
NoteSet(H, p, c) ==
    IF ~Ok(H) THEN H
    ELSE LET k == H.pr[p].chan
         IN IF k = 0 THEN H
            ELSE IF H.ch[k].set1.st = "future" THEN [H EXCEPT !.ch[k].set1 = c]
            ELSE [H EXCEPT !.ch[k].setMulti = TRUE]

\* set_value that does not test the cell pointer
set_value_unguarded(H, p, v) ==
    IF ~Ok(H) THEN H
    ELSE make_ready(state_set(H, H.pr[p].state, v), p, FALSE, FALSE)

\* promise::set_value
set_value(H, p, v) ==
    IF ~Ok(H) THEN H
    ELSE IF H.pr[p].state # NullLoc
    THEN make_ready(state_set(H, H.pr[p].state, v), p, FALSE, FALSE)
    ELSE H

\* set_exception guarded by the future link instead of the cell pointer
set_exception_needs_future(H, p, e) ==
    IF ~Ok(H) THEN H
    ELSE IF H.pr[p].future # 0
    THEN make_ready(state_set_exception(H, H.pr[p].state, e), p, FALSE, FALSE)
    ELSE H

\* promise::set_exception
set_exception(H, p, e) ==
    IF ~Ok(H) THEN H
    ELSE IF H.pr[p].state # NullLoc
    THEN make_ready(state_set_exception(H, H.pr[p].state, e), p, FALSE, FALSE)
    ELSE H

\* promise::set_urgent_state; c is the cell moved in.  Returns the heap; the
\* caller invalidates the source cell iff the promise had a cell pointer.
set_urgent_state(H, p, c, np) ==
    IF ~Ok(H) THEN H
    ELSE IF H.pr[p].state # NullLoc
    THEN make_ready(SetCellAt(H, H.pr[p].state, c), p, TRUE, np)
    ELSE H

\* future_base::detach_promise
detach_promise(H, f) ==
    IF ~Ok(H) THEN H
    ELSE LET p == H.fu[f].promise
         IN [H EXCEPT !.pr[p].state = NullLoc, !.pr[p].future = 0, !.fu[f].promise = 0]

\* a destructor that only unlinks the future and leaves its cell pending
check_during_destruction_unlink_only(H, p) ==
    IF ~Ok(H) THEN H
    ELSE IF H.pr[p].future # 0 THEN detach_promise(H, H.pr[p].future)
    ELSE IF H.pr[p].task # 0
    THEN LET t == H.pr[p].task
             H1 == set_to_broken_promise(H, H.pr[p].state)
         IN schedule([H1 EXCEPT !.pr[p].state = NullLoc, !.pr[p].task = 0], t)
    ELSE H

\* a destructor that lets go of a continuation it still owns without
\* fulfilling or enqueueing it
check_during_destruction_drops_task(H, p) ==
    IF ~Ok(H) THEN H
    ELSE IF H.pr[p].future # 0
    THEN LET H1 == IF CellAt(H, H.pr[p].state).st = "future"
                   THEN set_to_broken_promise(H, H.pr[p].state) ELSE H
         IN detach_promise(H1, H.pr[p].future)
    ELSE H

\* promise_base::check_during_destruction (declared only): a pending cell of
\* a linked future becomes broken_promise and the back-pointers are cleared;
\* a continuation still owned is given broken_promise and enqueued
check_during_destruction(H, p) ==
    IF ~Ok(H) THEN H
    ELSE IF H.pr[p].future # 0
    THEN LET H1 == IF CellAt(H, H.pr[p].state).st = "future"
                   THEN set_to_broken_promise(H, H.pr[p].state) ELSE H
         IN detach_promise(H1, H.pr[p].future)
    ELSE IF H.pr[p].task # 0
    THEN LET t == H.pr[p].task
             H1 == set_to_broken_promise(H, H.pr[p].state)
         IN schedule([H1 EXCEPT !.pr[p].state = NullLoc, !.pr[p].task = 0], t)
    ELSE H

\* promise::~promise
destroy_promise(H, p) ==
    LET H1 == check_during_destruction(H, p)
    IN IF ~Ok(H1) THEN H1
       ELSE [H1 EXCEPT !.pr[p] = [alive |-> FALSE, future |-> 0, state |-> NullLoc, task |-> 0,
                                  local |-> Invalid, chan |-> H.pr[p].chan, user |-> H.pr[p].user,
                                  gave |-> H.pr[p].gave]]

\* ----------------------------------------------------------------- future
\* get_future whose new future starts from a fresh cell instead of taking
\* over the promise-local one
get_future_fresh_cell(H, p) ==
    IF ~Ok(H) THEN H
    ELSE IF ~(H.pr[p].future = 0 /\ H.pr[p].state # NullLoc /\ H.pr[p].task = 0)
    THEN Abort(H, "assert_get_future")
    ELSE LET f == Len(H.fu) + 1
         IN [H EXCEPT !.fu = Append(@, [alive |-> TRUE, promise |-> p, st |-> Pending,
                                        chan |-> H.pr[p].chan]),
                      !.pr[p].local = Invalid,
                      !.pr[p].gave = "yes",
                      !.pr[p].future = f,
                      !.pr[p].state = FutLoc(f)]

\* get_future whose assertion tests only that no future is linked
get_future_checks_future_only(H, p) ==
    IF ~Ok(H) THEN H
    ELSE IF H.pr[p].future # 0
    THEN Abort(H, "assert_get_future")
    ELSE LET f == Len(H.fu) + 1
         IN [H EXCEPT !.fu = Append(@, [alive |-> TRUE, promise |-> p, st |-> H.pr[p].local,
                                        chan |-> H.pr[p].chan]),
                      !.pr[p].local = Invalid,
                      !.pr[p].gave = "yes",
                      !.pr[p].future = f,
                      !.pr[p].state = FutLoc(f)]

\* promise::get_future and future::future(promise*)
get_future(H, p) ==
    IF ~Ok(H) THEN H
    ELSE IF ~(H.pr[p].future = 0 /\ H.pr[p].state # NullLoc /\ H.pr[p].task = 0)
    THEN Abort(H, "assert_get_future")
    ELSE LET f == Len(H.fu) + 1
         IN [H EXCEPT !.fu = Append(@, [alive |-> TRUE, promise |-> p, st |-> H.pr[p].local,
                                        chan |-> H.pr[p].chan]),
                      !.pr[p].local = Invalid,
                      !.pr[p].gave = "yes",
                      !.pr[p].future = f,
                      !.pr[p].state = FutLoc(f)]

\* make_ready_future / make_exception_future: a future with no promise
make_future(H, c, k) ==
    [H EXCEPT !.fu = Append(@, [alive |-> TRUE, promise |-> 0, st |-> c, chan |-> k])]

\* get_available_state that hands out a copy and leaves the cell in place
get_available_state_copies(H, f) ==
    IF ~Ok(H) THEN H
    ELSE IF H.fu[f].promise # 0 THEN detach_promise(H, f) ELSE H

\* future::get_available_state: the caller has read H.fu[f].st
get_available_state(H, f) ==
    IF ~Ok(H) THEN H
    ELSE LET H1 == IF H.fu[f].promise # 0 THEN detach_promise(H, f) ELSE H
         IN [H1 EXCEPT !.fu[f].st = Invalid]

\* future::abandoned
abandoned(H, f) == set_to_broken_promise(H, FutLoc(f))

\* report_failed_future (declared only): the logger hook
report_failed_future(H, e) ==
    IF ~Ok(H) THEN H ELSE [H EXCEPT !.reports = Append(@, e)]

\* a future destructor that leaves the promise linked to the dead future
destroy_future_keeps_link(H, f) ==
    IF ~Ok(H) THEN H
    ELSE LET H1 == IF failed(H.fu[f].st) THEN report_failed_future(H, H.fu[f].st.ex) ELSE H
         IN [H1 EXCEPT !.fu[f] = [alive |-> FALSE, promise |-> 0, st |-> Invalid, chan |-> H.fu[f].chan]]

\* future::~future, ~future_state, ~future_base
destroy_future(H, f) ==
    IF ~Ok(H) THEN H
    ELSE LET H1 == IF failed(H.fu[f].st) THEN report_failed_future(H, H.fu[f].st.ex) ELSE H
             H2 == IF H1.fu[f].promise # 0 THEN detach_promise(H1, f) ELSE H1
         IN [H2 EXCEPT !.fu[f] = [alive |-> FALSE, promise |-> 0, st |-> Invalid, chan |-> H.fu[f].chan]]

\* futurize<T>::apply with the callables of Funcs: the state of the ready
\* future it returns
futurize_apply(func, v) ==
    IF func = "inc" THEN ValueCell(v + 1) ELSE ExcCell(FuncExc)

NewTask(kind, func, prm, cell, wfor, k) ==
    [alive |-> TRUE, kind |-> kind, func |-> func, prm |-> prm, cell |-> cell,
     wfor |-> wfor, chan |-> k, enq |-> 0, runs |-> 0, urgent |-> FALSE, attached |-> FALSE]

\* promise::schedule that also hands the new task to the scheduler at once
promise_schedule_enqueues(H, p, tr) ==
    IF ~Ok(H) THEN H
    ELSE LET t == Len(H.tk) + 1
         IN schedule([H EXCEPT !.tk = Append(@, [tr EXCEPT !.cell = Pending, !.attached = TRUE]),
                               !.pr[p].state = TaskLoc(t),
                               !.pr[p].task = t], t)

\* promise::schedule: the new continuation's cell is default-constructed
promise_schedule(H, p, tr) ==
    IF ~Ok(H) THEN H
    ELSE LET t == Len(H.tk) + 1
         IN [H EXCEPT !.tk = Append(@, [tr EXCEPT !.cell = Pending, !.attached = TRUE]),
                      !.pr[p].state = TaskLoc(t),
                      !.pr[p].task = t]

\* future::schedule that forgets to move the future's cell into the task
future_schedule_fresh_cell(H, f, tr) ==
    IF ~Ok(H) THEN H
    ELSE IF available(H.fu[f].st) \/ H.fu[f].promise = 0
    THEN LET t == Len(H.tk) + 1
         IN schedule([H EXCEPT !.tk = Append(@, [tr EXCEPT !.cell = Pending]),
                               !.fu[f].st = Invalid], t)
    ELSE LET p == H.fu[f].promise
         IN promise_schedule(detach_promise(H, f), p, tr)

\* future::schedule that copies the future's cell into the task and leaves
\* the future holding it as well
future_schedule_copies_cell(H, f, tr) ==
    IF ~Ok(H) THEN H
    ELSE IF available(H.fu[f].st) \/ H.fu[f].promise = 0
    THEN LET H1 == IF ~available(H.fu[f].st) /\ H.fu[f].promise = 0 THEN abandoned(H, f) ELSE H
             t == Len(H.tk) + 1
         IN IF ~Ok(H1) THEN H1
            ELSE schedule([H1 EXCEPT !.tk = Append(@, [tr EXCEPT !.cell = H1.fu[f].st])], t)
    ELSE LET p == H.fu[f].promise
         IN promise_schedule(detach_promise(H, f), p, tr)

\* future::schedule that hands the continuation to the promise whenever the
\* future has one, available or not
future_schedule_attaches_when_linked(H, f, tr) ==
    IF ~Ok(H) THEN H
    ELSE IF H.fu[f].promise = 0
    THEN LET H1 == IF ~available(H.fu[f].st) THEN abandoned(H, f) ELSE H
             t == Len(H.tk) + 1
         IN IF ~Ok(H1) THEN H1
            ELSE schedule([H1 EXCEPT !.tk = Append(@, [tr EXCEPT !.cell = H1.fu[f].st]),
                                     !.fu[f].st = Invalid], t)
    ELSE LET p == H.fu[f].promise
         IN promise_schedule(detach_promise(H, f), p, tr)

\* future::schedule
future_schedule(H, f, tr) ==
    IF ~Ok(H) THEN H
    ELSE IF available(H.fu[f].st) \/ H.fu[f].promise = 0
    THEN LET H1 == IF ~available(H.fu[f].st) /\ H.fu[f].promise = 0 THEN abandoned(H, f) ELSE H
             t == Len(H.tk) + 1
         IN IF ~Ok(H1) THEN H1
            ELSE schedule([H1 EXCEPT !.tk = Append(@, [tr EXCEPT !.cell = H1.fu[f].st]),
                                     !.fu[f].st = Invalid], t)
    ELSE LET p == H.fu[f].promise
         IN promise_schedule(detach_promise(H, f), p, tr)

\* promise_base::promise_base(promise_base&&) (declared only): d takes x's
\* _future, _state and _task, the linked future is repointed at d, and x
\* is left with null pointers
promise_base_move(H, d, x) ==
    IF ~Ok(H) THEN H
    ELSE LET X == H.pr[x]
             H1 == [H EXCEPT !.pr[d] = [alive |-> TRUE, future |-> X.future, state |-> X.state,
                                        task |-> X.task, local |-> Pending, chan |-> X.chan,
                                        user |-> H.pr[d].user,
                                        gave |-> IF H.pr[d].gave = "no" THEN "no"
                                                 ELSE "reassigned"],
                             !.pr[x].future = 0, !.pr[x].state = NullLoc, !.pr[x].task = 0,
                             !.pr[x].chan = 0]
         IN IF X.future # 0 THEN [H1 EXCEPT !.fu[X.future].promise = d] ELSE H1

\* a move constructor that leaves the promise-local cell behind in x
promise_move_base_only(H, d, x) == promise_base_move(H, d, x)

\* promise::promise(promise&&): constructs promise d from x
promise_move(H, d, x) ==
    IF ~Ok(H) THEN H
    ELSE LET H2 == promise_base_move(H, d, x)
         IN IF H2.pr[d].state = LocalLoc(x)
            THEN [H2 EXCEPT !.pr[d].state = LocalLoc(d), !.pr[d].local = H.pr[x].local,
                            !.pr[x].local = Invalid]
            ELSE H2

\* forward_to that handles only the pending source: an available one is
\* dropped instead of being handed to the promise
forward_to_pending_only(H, f, p, np) ==
    IF ~Ok(H) THEN H
    ELSE IF available(H.fu[f].st)
    THEN [NoteSet(H, p, H.fu[f].st) EXCEPT !.fu[f].st = Invalid]
    ELSE IF H.fu[f].promise = 0 THEN Abort(H, "null_promise_dereference")
    ELSE LET q == H.fu[f].promise
             H1 == check_during_destruction(detach_promise(H, f), q)
         IN promise_move(H1, q, p)

\* forward_to whose pending branch moves the future's promise into the
\* target instead of the target into the future's promise
forward_to_moves_wrong_way(H, f, p, np) ==
    IF ~Ok(H) THEN H
    ELSE IF available(H.fu[f].st)
    THEN LET H1 == set_urgent_state(NoteSet(H, p, H.fu[f].st), p, H.fu[f].st, np)
         IN IF Ok(H1) /\ H.pr[p].state # NullLoc THEN [H1 EXCEPT !.fu[f].st = Invalid] ELSE H1
    ELSE IF H.fu[f].promise = 0 THEN Abort(H, "null_promise_dereference")
    ELSE LET q == H.fu[f].promise
             H1 == check_during_destruction(detach_promise(H, f), p)
         IN promise_move(H1, p, q)

\* future::forward_to
forward_to(H, f, p, np) ==
    IF ~Ok(H) THEN H
    ELSE IF available(H.fu[f].st)
    THEN LET H1 == set_urgent_state(NoteSet(H, p, H.fu[f].st), p, H.fu[f].st, np)
         IN IF Ok(H1) /\ H.pr[p].state # NullLoc THEN [H1 EXCEPT !.fu[f].st = Invalid] ELSE H1
    ELSE IF H.fu[f].promise = 0 THEN Abort(H, "null_promise_dereference")
    ELSE LET q == H.fu[f].promise
             H1 == check_during_destruction(detach_promise(H, f), q)
         IN promise_move(H1, q, p)

\* ------------------------------------------------------- then / callables
NewChan(kind, src, func) ==
    [kind |-> kind, src |-> src, func |-> func, calls |-> 0, arg |-> Pending,
     set1 |-> Pending, setMulti |-> FALSE, got |-> <<>>, consumed |-> FALSE,
     inl |-> FALSE, broken |-> FALSE]

\* history: the callable of then-call k is invoked on outcome c
NoteCall(H, k, c) ==
    IF ~Ok(H) THEN H ELSE [H EXCEPT !.ch[k].calls = @ + 1, !.ch[k].arg = c]

\* the callables given to then_wrapped, run through futurize::apply on a
\* future holding c: "inc" is f.get0() + 1, "throw" raises without
\* touching its argument.  The state of the future apply returns.
wrapped_result(func, c) ==
    IF func = "throw" THEN ExcCell(FuncExc)
    ELSE IF c.st = "result" THEN ValueCell(c.v + 1)
    ELSE IF c.st = "exception" THEN ExcCell(c.ex)
    ELSE ExcCell(BrokenPromise)

\* side effects of that call: the argument future is destroyed when the
\* callable returns; get() on an invalid cell trips abandoned()'s assert
wrapped_effect(H, func, c) ==
    IF ~Ok(H) THEN H
    ELSE IF func = "throw" THEN (IF failed(c) THEN report_failed_future(H, c.ex) ELSE H)
    ELSE IF c.st = "invalid" THEN Abort(H, "assert_set_exception_pending")
    ELSE H

\* then_impl / then_wrapped_impl without the inline path: always scheduled
then_impl_never_inline(H, f, func, np, wrapped) ==
    IF ~Ok(H) THEN H
    ELSE LET k == Len(H.ch) + 1
             Ha == [H EXCEPT !.ch[H.fu[f].chan].consumed = TRUE]
             H0 == [Ha EXCEPT !.ch = Append(@, NewChan(IF wrapped THEN "wrapped" ELSE "then",
                                                       H.fu[f].chan, func))]
             pr == Len(H0.pr) + 1
             H2 == get_future(AllocPromise(H0, k, FALSE), pr)
         IN future_schedule(H2, f, NewTask(IF wrapped THEN "wrapped" ELSE "then",
                                           func, pr, Pending, 0, k))

\* then_impl / then_wrapped_impl that runs the callable inline on every
\* available future, whatever need_preempt() answers
then_impl_ignores_preempt(H, f, func, np, wrapped) ==
    IF ~Ok(H) THEN H
    ELSE LET c == H.fu[f].st
             k == Len(H.ch) + 1
             Ha == [H EXCEPT !.ch[H.fu[f].chan].consumed = TRUE]
             H0 == [Ha EXCEPT !.ch = Append(@, NewChan(IF wrapped THEN "wrapped" ELSE "then",
                                                       H.fu[f].chan, func))]
         IN IF available(c)
            THEN LET H1 == [get_available_state(H0, f) EXCEPT !.ch[k].inl = TRUE]
                 IN IF wrapped
                    THEN make_future(wrapped_effect(NoteCall(H1, k, c), func, c),
                                     wrapped_result(func, c), k)
                    ELSE IF failed(c) THEN make_future(H1, ExcCell(c.ex), k)
                    ELSE make_future(NoteCall(H1, k, c), futurize_apply(func, c.v), k)
            ELSE LET pr == Len(H0.pr) + 1
                     H2 == get_future(AllocPromise(H0, k, FALSE), pr)
                 IN future_schedule(H2, f, NewTask(IF wrapped THEN "wrapped" ELSE "then",
                                                   func, pr, Pending, 0, k))

\* future::then_impl (wrapped = FALSE) and future::then_wrapped_impl
then_impl(H, f, func, np, wrapped) ==
    IF ~Ok(H) THEN H
    ELSE LET c == H.fu[f].st
             k == Len(H.ch) + 1
             Ha == [H EXCEPT !.ch[H.fu[f].chan].consumed = TRUE]
             H0 == [Ha EXCEPT !.ch = Append(@, NewChan(IF wrapped THEN "wrapped" ELSE "then",
                                                       H.fu[f].chan, func))]
         IN IF available(c) /\ ~np
            THEN LET H1 == [get_available_state(H0, f) EXCEPT !.ch[k].inl = TRUE]
                 IN IF wrapped
                    THEN make_future(wrapped_effect(NoteCall(H1, k, c), func, c),
                                     wrapped_result(func, c), k)
                    ELSE IF failed(c) THEN make_future(H1, ExcCell(c.ex), k)
                    ELSE make_future(NoteCall(H1, k, c), futurize_apply(func, c.v), k)
            ELSE LET pr == Len(H0.pr) + 1
                     H2 == get_future(AllocPromise(H0, k, FALSE), pr)
                 IN future_schedule(H2, f, NewTask(IF wrapped THEN "wrapped" ELSE "then",
                                                   func, pr, Pending, 0, k))

\* a then-continuation that does not test failed() before calling the callable
then_lambda_no_failed_test(H, t, np) ==
    LET T == H.tk[t]
        c == T.cell
        r == futurize_apply(T.func, c.v)
        tmp == Len(H.fu) + 1
        H1 == make_future(NoteCall(H, T.chan, c), r, 0)
    IN destroy_future(forward_to(H1, tmp, T.prm, np), tmp)

\* a then-continuation that calls the callable and drops what it returns
then_lambda_drops_result(H, t, np) ==
    LET T == H.tk[t]
        c == T.cell
    IN IF failed(c)
       THEN set_exception(NoteSet([H EXCEPT !.tk[t].cell = Invalid], T.prm, c), T.prm, c.ex)
       ELSE IF c.st # "result" THEN Abort(H, "assert_get_value")
       ELSE NoteCall(H, T.chan, c)

\* the lambda then_impl hands to schedule(), run on the task's cell
then_lambda(H, t, np) ==
    LET T == H.tk[t]
        c == T.cell
    IN IF failed(c)
       THEN set_exception(NoteSet([H EXCEPT !.tk[t].cell = Invalid], T.prm, c), T.prm, c.ex)
       ELSE IF c.st # "result" THEN Abort(H, "assert_get_value")
       ELSE LET r == futurize_apply(T.func, c.v)
                tmp == Len(H.fu) + 1
                H1 == make_future(NoteCall(H, T.chan, c), r, 0)
            IN destroy_future(forward_to(H1, tmp, T.prm, np), tmp)

\* a then_wrapped continuation that, like then's, passes a failure on without
\* calling the callable
wrapped_lambda_skips_failed(H, t, np) ==
    LET T == H.tk[t]
        c == T.cell
    IN IF failed(c)
       THEN set_exception(NoteSet([H EXCEPT !.tk[t].cell = Invalid], T.prm, c), T.prm, c.ex)
       ELSE LET r == wrapped_result(T.func, c)
                tmp == Len(H.fu) + 1
                H1 == wrapped_effect(NoteCall([H EXCEPT !.tk[t].cell = Invalid], T.chan, c),
                                     T.func, c)
            IN IF ~Ok(H1) THEN H1
               ELSE destroy_future(forward_to(make_future(H1, r, 0), tmp, T.prm, np), tmp)

\* the lambda then_wrapped_impl hands to schedule()
wrapped_lambda(H, t, np) ==
    LET T == H.tk[t]
        c == T.cell
        r == wrapped_result(T.func, c)
        tmp == Len(H.fu) + 1
        H1 == wrapped_effect(NoteCall([H EXCEPT !.tk[t].cell = Invalid], T.chan, c), T.func, c)
    IN IF ~Ok(H1) THEN H1
       ELSE destroy_future(forward_to(make_future(H1, r, 0), tmp, T.prm, np), tmp)

\* continuation::run_and_dispose: the callable, then delete this, which
\* destroys the promise the lambda captured
run_and_dispose(H, t, np) ==
    LET H1 == IF H.tk[t].kind = "then" THEN then_lambda(H, t, np) ELSE wrapped_lambda(H, t, np)
        H2 == destroy_promise(H1, H.tk[t].prm)
    IN IF ~Ok(H2) THEN H2 ELSE [H2 EXCEPT !.tk[t].alive = FALSE, !.tk[t].cell = Invalid]

\* ------------------------------------------------------------ get / wait
\* the tail of future::get: get_available_state().get()
finish_get(H, f) ==
    IF ~Ok(H) THEN H
    ELSE LET c == H.fu[f].st
         IN IF c.st = "future" THEN Abort(H, "assert_get_not_pending")
            ELSE [get_available_state(H, f) EXCEPT !.ch[H.fu[f].chan].got = Append(@, c)]

\* a do_wait that asks for the current fiber before it looks at the promise
do_wait_asserts_first(H, f, thread) ==
    IF ~Ok(H) THEN H
    ELSE IF ~thread THEN Abort(H, "assert_thread")
    ELSE IF H.fu[f].promise = 0 THEN abandoned(H, f)
    ELSE LET p == H.fu[f].promise
             H1 == promise_schedule(detach_promise(H, f), p,
                                    NewTask("wake", "", 0, Pending, f, H.fu[f].chan))
         IN [H1 EXCEPT !.blocked = @ \cup {f}]

\* future::do_wait up to switch_out; thread is thread_impl::get() # nullptr
do_wait(H, f, thread) ==
    IF ~Ok(H) THEN H
    ELSE IF H.fu[f].promise = 0 THEN abandoned(H, f)
    ELSE IF ~thread THEN Abort(H, "assert_thread")
    ELSE LET p == H.fu[f].promise
             H1 == promise_schedule(detach_promise(H, f), p,
                                    NewTask("wake", "", 0, Pending, f, H.fu[f].chan))
         IN [H1 EXCEPT !.blocked = @ \cup {f}]

\* future::get
future_get(H, f, thread) ==
    IF ~Ok(H) THEN H
    ELSE IF ~available(H.fu[f].st)
    THEN LET H1 == do_wait(H, f, thread)
         IN IF f \in H1.blocked THEN H1 ELSE finish_get(H1, f)
    ELSE finish_get(H, f)

\* thread_wake_task::run_and_dispose; switch_in resumes the fiber inside
\* get(), which returns before the task does
wake_run(H, t) ==
    LET f == H.tk[t].wfor
        H1 == [H EXCEPT !.fu[f].st = H.tk[t].cell, !.tk[t].cell = Invalid,
                        !.tk[t].alive = FALSE, !.blocked = @ \ {f}]
    IN finish_get(H1, f)

\* a move constructor that copies the cell and leaves the source holding it
future_move_copies_cell(H, x) ==
    IF ~Ok(H) THEN H
    ELSE LET d == Len(H.fu) + 1
             p == H.fu[x].promise
             H1 == [H EXCEPT !.fu = Append(@, [alive |-> TRUE, promise |-> p, st |-> H.fu[x].st,
                                               chan |-> H.fu[x].chan])]
         IN IF p # 0
            THEN [detach_promise(H1, x) EXCEPT !.fu[d].promise = p, !.pr[p].future = d,
                                               !.pr[p].state = FutLoc(d)]
            ELSE H1

\* a move constructor that repoints the promise's cell pointer but not its
\* future pointer
future_move_no_backpointer(H, x) ==
    IF ~Ok(H) THEN H
    ELSE LET d == Len(H.fu) + 1
             p == H.fu[x].promise
             H1 == [H EXCEPT !.fu = Append(@, [alive |-> TRUE, promise |-> p, st |-> H.fu[x].st,
                                               chan |-> H.fu[x].chan])]
             H2 == IF p # 0
                   THEN [detach_promise(H1, x) EXCEPT !.fu[d].promise = p,
                                                      !.pr[p].state = FutLoc(d)]
                   ELSE H1
         IN [H2 EXCEPT !.fu[x].st = Invalid]

\* future::future(future&&): constructs a new future from x
future_move(H, x) ==
    IF ~Ok(H) THEN H
    ELSE LET d == Len(H.fu) + 1
             p == H.fu[x].promise
             H1 == [H EXCEPT !.fu = Append(@, [alive |-> TRUE, promise |-> p, st |-> H.fu[x].st,
                                               chan |-> H.fu[x].chan])]
             H2 == IF p # 0
                   THEN [detach_promise(H1, x) EXCEPT !.fu[d].promise = p, !.pr[p].future = d,
                                                      !.pr[p].state = FutLoc(d)]
                   ELSE H1
         IN [H2 EXCEPT !.fu[x].st = Invalid]

\* ---------------------------------------------------------------- actions
\* the program has constructed one promise
Init ==
    /\ promises = <<[NewPromiseRec(1, TRUE) EXCEPT !.state = LocalLoc(1)]>>
    /\ futures = <<>>
    /\ tasks = <<>>
    /\ queue = <<>>
    /\ chans = <<NewChan("user", 0, "")>>
    /\ crashed = ""
    /\ reports = <<>>
    /\ blocked = {}
    /\ ops = 0
    /\ ran = 0

Commit(H) ==
    /\ promises' = H.pr
    /\ futures' = H.fu
    /\ tasks' = H.tk
    /\ queue' = H.q
    /\ chans' = H.ch
    /\ crashed' = H.crashed
    /\ reports' = H.reports
    /\ blocked' = H.blocked

\* objects the program's own code can name
ThenCalls == Cardinality({k \in DOMAIN chans : chans[k].kind # "user"})
UserPromises == {p \in DOMAIN promises : promises[p].alive /\ promises[p].user}
UserFutures == {f \in DOMAIN futures : futures[f].alive /\ f \notin blocked}

GetFuture(p) ==
    /\ crashed = ""
    /\ ops < MaxOps
    /\ Commit(get_future(Heap, p))
    /\ ops' = ops + 1
    /\ UNCHANGED ran

SetValue(p, v) ==
    /\ crashed = ""
    /\ ops < MaxOps
    /\ Commit(set_value(NoteSet(Heap, p, ValueCell(v)), p, v))
    /\ ops' = ops + 1
    /\ UNCHANGED ran

SetException(p, e) ==
    /\ crashed = ""
    /\ ops < MaxOps
    /\ Commit(set_exception(NoteSet(Heap, p, ExcCell(e)), p, e))
    /\ ops' = ops + 1
    /\ UNCHANGED ran

\* history: the promise of a channel is destroyed while its future is linked
\* and the cell still pending
NoteBroken(H, p) ==
    IF H.pr[p].future # 0 /\ CellAt(H, H.pr[p].state).st = "future"
    THEN [H EXCEPT !.ch[H.pr[p].chan].broken = TRUE] ELSE H

DestroyPromise(p) ==
    /\ crashed = ""
    /\ ops < MaxOps
    /\ Commit(destroy_promise(NoteBroken(Heap, p), p))
    /\ ops' = ops + 1
    /\ UNCHANGED ran

MovePromise(p) ==
    /\ crashed = ""
    /\ ops < MaxOps
    /\ Commit(promise_move([Heap EXCEPT !.pr = Append(@, NewPromiseRec(0, TRUE))],
                           Len(promises) + 1, p))
    /\ ops' = ops + 1
    /\ UNCHANGED ran

MoveFuture(f) ==
    /\ crashed = ""
    /\ ops < MaxOps
    /\ Commit(future_move(Heap, f))
    /\ ops' = ops + 1
    /\ UNCHANGED ran

DestroyFuture(f) ==
    /\ crashed = ""
    /\ ops < MaxOps
    /\ Commit(destroy_future(Heap, f))
    /\ ops' = ops + 1
    /\ UNCHANGED ran

Get(f, thread) ==
    /\ crashed = ""
    /\ ops < MaxOps
    /\ Commit(future_get(Heap, f, thread))
    /\ ops' = ops + 1
    /\ UNCHANGED ran

Then(f, func, np) ==
    /\ crashed = ""
    /\ ops < MaxOps
    /\ ThenCalls < MaxThen
    /\ Commit(then_impl(Heap, f, func, np, FALSE))
    /\ ops' = ops + 1
    /\ UNCHANGED ran

ThenWrapped(f, func, np) ==
    /\ crashed = ""
    /\ ops < MaxOps
    /\ ThenCalls < MaxThen
    /\ Commit(then_impl(Heap, f, func, np, TRUE))
    /\ ops' = ops + 1
    /\ UNCHANGED ran

\* the reactor takes the task at the head of the queue and runs it
RunTask(np) ==
    /\ crashed = ""
    /\ queue # <<>>
    /\ LET t == Head(queue)
           H == [Heap EXCEPT !.q = Tail(@), !.tk[t].runs = @ + 1]
       IN Commit(IF tasks[t].kind = "wake" THEN wake_run(H, t) ELSE run_and_dispose(H, t, np))
    /\ ran' = ran + 1
    /\ UNCHANGED ops

Next ==
    \/ \E p \in UserPromises : GetFuture(p)
    \/ \E p \in UserPromises, v \in Values : SetValue(p, v)
    \/ \E p \in UserPromises, e \in Excs : SetException(p, e)
    \/ \E p \in UserPromises : DestroyPromise(p)
    \/ \E p \in UserPromises : MovePromise(p)
    \/ \E f \in UserFutures : MoveFuture(f)
    \/ \E f \in UserFutures : DestroyFuture(f)
    \/ \E f \in UserFutures, thread \in BOOLEAN : Get(f, thread)
    \/ \E f \in UserFutures, func \in Funcs, np \in BOOLEAN : Then(f, func, np)
    \/ \E f \in UserFutures, func \in WrappedFuncs, np \in BOOLEAN : ThenWrapped(f, func, np)
    \/ \E np \in BOOLEAN : RunTask(np)

Spec == Init /\ [][Next]_vars

\* a step of the reactor: RunTask is the only action that advances ran, and
\* it is enabled exactly when the queue is not empty
RunStep == crashed = "" /\ queue # <<>> /\ ran' = ran + 1

\* the reactor keeps running queued tasks
LiveSpec == Spec /\ WF_ran(RunStep)

TypeOK ==
    /\ crashed \in STRING
    /\ ops \in 0..MaxOps
    /\ ran \in Nat

\* ------------------------------------------------------------------ claims
\* channels created by the program's own promise, to whose future no
\* then / then_wrapped was applied
PlainChans == {k \in DOMAIN chans : chans[k].kind = "user" /\ ~chans[k].consumed}

\* C1: when set_value(v) is the one fulfilling call made on a promise and no
\* transformer was applied to its future, get() on the future returns
\* exactly v; a value set before get_future sits in the promise-local cell,
\* and the future linked to the promise holds v (is available) as soon as
\* both the call and get_future have happened.
C1_ValueIntegrity ==
    crashed = "" =>
    \A k \in PlainChans :
        (chans[k].set1.st = "result" /\ ~chans[k].setMulti) =>
            /\ chans[k].got \in {<<>>, <<chans[k].set1>>}
            /\ \A p \in DOMAIN promises :
                   (promises[p].alive /\ promises[p].chan = k /\ promises[p].state = LocalLoc(p))
                       => promises[p].local = chans[k].set1
            /\ \A f \in DOMAIN futures :
                   (futures[f].alive /\ futures[f].chan = k /\ futures[f].promise # 0)
                       => futures[f].st = chans[k].set1

C1_Witness ==
    \E k \in PlainChans :
        /\ chans[k].set1 = ValueCell(2)
        /\ ~chans[k].setMulti
        /\ chans[k].got = <<ValueCell(2)>>
        /\ \E t \in DOMAIN tasks : tasks[t].kind = "wake" /\ tasks[t].runs = 1

\* C2: when set_exception(e) is the one fulfilling call made on a promise and
\* no transformer was applied to its future, the future linked to the
\* promise is failed with e itself and get() raises e, whether the call came
\* before or after get_future.
C2_FailurePreserved ==
    crashed = "" =>
    \A k \in PlainChans :
        (chans[k].set1.st = "exception" /\ ~chans[k].setMulti) =>
            /\ chans[k].got \in {<<>>, <<chans[k].set1>>}
            /\ \A p \in DOMAIN promises :
                   (promises[p].alive /\ promises[p].chan = k /\ promises[p].state = LocalLoc(p))
                       => promises[p].local = chans[k].set1
            /\ \A f \in DOMAIN futures :
                   (futures[f].alive /\ futures[f].chan = k /\ futures[f].promise # 0)
                       => (failed(futures[f].st) /\ futures[f].st.ex = chans[k].set1.ex)

C2_Witness ==
    \E k \in PlainChans :
        /\ chans[k].set1 = ExcCell("E1")
        /\ ~chans[k].setMulti
        /\ chans[k].got = <<ExcCell("E1")>>

\* channels whose promise was destroyed while the cell was pending and the
\* future linked
BrokenChans == {k \in DOMAIN chans : chans[k].broken}

\* C3: after a promise is destroyed with its cell pending, every observation
\* of its future yields broken_promise: get() raises it; a continuation made
\* by then / then_wrapped holds it in its cell; the callable of then() is
\* never invoked, the callable of then_wrapped sees it, and the future
\* then() returned resolves with it.
C3_BrokenPromiseObserved ==
    crashed = "" =>
    \A k \in BrokenChans :
        /\ chans[k].got \in {<<>>, <<ExcCell(BrokenPromise)>>}
        /\ \A j \in DOMAIN chans : chans[j].src = k =>
              /\ chans[j].kind = "then" => chans[j].calls = 0
              /\ chans[j].arg \in {Pending, ExcCell(BrokenPromise)}
              /\ \A t \in DOMAIN tasks :
                     (tasks[t].alive /\ tasks[t].kind # "wake" /\ tasks[t].chan = j)
                         => tasks[t].cell = ExcCell(BrokenPromise)
              /\ \A r \in DOMAIN futures :
                     (chans[j].kind = "then" /\ futures[r].chan = j /\ available(futures[r].st))
                         => futures[r].st = ExcCell(BrokenPromise)

C3_Witness ==
    \E k \in BrokenChans : \E j \in DOMAIN chans : \E t \in DOMAIN tasks : \E r \in DOMAIN futures :
        /\ chans[j].src = k /\ chans[j].kind = "then"
        /\ tasks[t].chan = j /\ tasks[t].runs = 1
        /\ futures[r].chan = j /\ futures[r].st = ExcCell(BrokenPromise)

InQueue(q, t) == \E i \in 1..Len(q) : q[i] = t

\* C5: a continuation is handed to the scheduler at most once and run at
\* most once, and once it has been enqueued no promise holds it or points
\* at its cell, so no later set_value / set_exception, move or destruction
\* of the promise can enqueue it again.
C5_AtMostOnce ==
    \A t \in DOMAIN tasks :
        /\ tasks[t].runs <= 1
        /\ tasks[t].enq <= 1
        /\ Cardinality({i \in 1..Len(queue) : queue[i] = t}) <= 1
        /\ tasks[t].enq >= 1 =>
               \A p \in DOMAIN promises :
                   promises[p].task # t /\ promises[p].state # TaskLoc(t)

C5_Witness ==
    \E t \in DOMAIN tasks : \E p \in DOMAIN promises :
        /\ tasks[t].kind = "then" /\ tasks[t].runs = 1
        /\ chans[chans[tasks[t].chan].src].setMulti
        /\ promises[p].user /\ ~promises[p].alive

QueueTerminal == \A i \in 1..Len(queue) : available(tasks[queue[i]].cell)

\* a step that puts task t into the queue: t was held by a promise and its
\* cell went from pending to terminal (broken_promise when the holder is
\* destroyed by the step), or t is new and made by then / then_wrapped on a
\* future that was resolved or had no promise
EnqueueCause(t) ==
    \/ /\ t \in DOMAIN tasks
       /\ tasks[t].cell.st = "future"
       /\ available(tasks'[t].cell)
       /\ \E p \in DOMAIN promises :
              /\ promises[p].task = t
              /\ promises[p].state = TaskLoc(t)
              /\ (promises[p].user /\ DestroyPromise(p))
                     => tasks'[t].cell = ExcCell(BrokenPromise)
    \/ /\ t \notin DOMAIN tasks
       /\ \E f \in UserFutures :
              /\ available(futures[f].st) \/ futures[f].promise = 0
              /\ \/ \E func \in Funcs, np \in BOOLEAN : Then(f, func, np)
                 \/ \E func \in WrappedFuncs, np \in BOOLEAN : ThenWrapped(f, func, np)

\* C6: every task in the scheduler queue, hence every continuation when it
\* is run, holds a cell that is value or failure, never pending; and a task
\* enters the queue only when its promise is fulfilled, when the promise
\* owning it is destroyed (after broken_promise was set), or directly from
\* then / then_wrapped on a resolved or abandoned future.
C6_RunsOnlyWhenTerminal ==
    /\ []QueueTerminal
    /\ [][\A t \in DOMAIN tasks' :
             (InQueue(queue', t) /\ ~InQueue(queue, t)) => EnqueueCause(t)]_vars

C6_Witness ==
    \E t \in DOMAIN tasks : \E p \in DOMAIN promises :
        /\ InQueue(queue, t)
        /\ tasks[t].kind = "wrapped"
        /\ tasks[t].cell = ExcCell(BrokenPromise)
        /\ promises[p].user /\ ~promises[p].alive /\ promises[p].chan = chans[tasks[t].chan].src

\* C7: then(f) on a future holding a value, with need_preempt() false, calls
\* f once on that value before returning, leaves queue and tasks untouched,
\* and returns a future holding what futurize::apply made of f's result.
C7_InlineWhenAvailable ==
    [][\A f \in UserFutures : \A func \in Funcs :
          (Then(f, func, FALSE) /\ futures[f].st.st = "result" /\ crashed' = "")
          => LET j == Len(chans) + 1
                 r == Len(futures) + 1
             IN /\ queue' = queue
                /\ tasks' = tasks
                /\ Len(chans') = j /\ Len(futures') = r
                /\ chans'[j].calls = 1
                /\ chans'[j].arg = futures[f].st
                /\ futures'[r].st = futurize_apply(func, futures[f].st.v)
                /\ futures'[r].promise = 0]_vars

C7_Witness ==
    \E j \in DOMAIN chans : \E r \in DOMAIN futures :
        /\ chans[j].kind = "then" /\ chans[j].inl /\ chans[j].func = "inc"
        /\ chans[j].calls = 1 /\ chans[j].arg = ValueCell(2)
        /\ futures[r].chan = j /\ futures[r].st = ValueCell(3)
        /\ tasks = <<>>

\* C8: then(f) on a future that resolves with failure e never calls f and
\* its result resolves with e: inline, then() returns a ready future failed
\* with e; scheduled, the continuation run on a cell failed with e puts e
\* into the cell of the result promise; f is only ever called on a value.
C8_FailureSkipsCallable ==
    /\ [](\A j \in DOMAIN chans :
             (chans[j].kind = "then" /\ chans[j].calls > 0) => chans[j].arg.st = "result")
    /\ [][/\ \A f \in UserFutures : \A func \in Funcs :
                (Then(f, func, FALSE) /\ failed(futures[f].st) /\ crashed' = "")
                => /\ chans'[Len(chans) + 1].calls = 0
                   /\ futures'[Len(futures) + 1].st = futures[f].st
                   /\ queue' = queue
          /\ \A np \in BOOLEAN :
                (/\ RunTask(np) /\ crashed' = ""
                 /\ tasks[Head(queue)].kind = "then"
                 /\ failed(tasks[Head(queue)].cell))
                => LET T == tasks[Head(queue)]
                       P == promises[T.prm]
                   IN /\ chans'[T.chan].calls = 0
                      /\ P.future # 0 => futures'[P.future].st = T.cell
                      /\ P.task # 0 => tasks'[P.task].cell = T.cell]_vars

C8_Witness ==
    \E j \in DOMAIN chans : \E r \in DOMAIN futures : \E t \in DOMAIN tasks :
        /\ chans[j].kind = "then" /\ ~chans[j].inl /\ chans[j].calls = 0
        /\ tasks[t].chan = j /\ tasks[t].runs = 1
        /\ futures[r].chan = j /\ futures[r].st = ExcCell("E1")

\* what a fulfilling call on promise p may change
FulfilFrame(p) ==
    IF promises[p].task # 0
    THEN /\ queue' = Append(queue, promises[p].task)
         /\ available(tasks'[promises[p].task].cell)
    ELSE /\ queue' = queue
         /\ tasks' = tasks
         /\ \A q \in DOMAIN promises :
                /\ promises'[q].future = promises[q].future
                /\ promises'[q].state = promises[q].state
                /\ q # p => promises'[q] = promises[q]
         /\ \A f \in DOMAIN futures :
                /\ futures'[f].promise = futures[f].promise
                /\ promises[p].state # FutLoc(f) => futures'[f] = futures[f]
         /\ promises[p].state # LocalLoc(p) => promises'[p] = promises[p]
         /\ promises[p].state = NullLoc => futures' = futures
         /\ promises[p].state # NullLoc =>
                (CellAt(Heap, promises[p].state).st = "future"
                 /\ available(IF promises[p].state = LocalLoc(p) THEN promises'[p].local
                              ELSE futures'[promises[p].state[2]].st))

\* C9: set_value / set_exception enqueues exactly one task, the one the
\* promise holds, when a continuation is attached; with none attached the
\* queue, the tasks and both back-pointers stay as they were and the only
\* change is that the cell the promise points at (its own or the linked
\* future's) becomes value or failure.
C9_FulfilFrame ==
    [][\A p \in UserPromises :
          /\ \A v \in Values : (SetValue(p, v) /\ crashed' = "") => FulfilFrame(p)
          /\ \A e \in Excs : (SetException(p, e) /\ crashed' = "") => FulfilFrame(p)]_vars

C9_Witness ==
    \E t \in DOMAIN tasks :
        /\ tasks[t].kind = "then" /\ tasks[t].enq = 1 /\ ~tasks[t].urgent
        /\ queue = <<t>>
        /\ tasks[t].cell = ValueCell(1)
        /\ chans[chans[tasks[t].chan].src].set1 = ValueCell(1)

\* the future then() returned is not available while the continuation is
\* still held by the unfulfilled promise or has not run yet
ResultWaits ==
    \A t \in DOMAIN tasks :
        (tasks[t].kind = "then" /\ tasks[t].attached /\ tasks[t].runs = 0) =>
            \A r \in DOMAIN futures : futures[r].chan = tasks[t].chan => ~available(futures[r].st)

\* the continuation run on value v leaves f(v) in the future linked to the
\* result promise
ResultDelivered ==
    \A np \in BOOLEAN :
        (/\ RunTask(np) /\ crashed' = ""
         /\ tasks[Head(queue)].kind = "then"
         /\ tasks[Head(queue)].cell.st = "result")
        => LET T == tasks[Head(queue)]
               P == promises[T.prm]
           IN /\ chans'[T.chan].calls = chans[T.chan].calls + 1
              /\ chans'[T.chan].arg = T.cell
              /\ P.future # 0 =>
                     futures'[P.future].st = futurize_apply(T.func, T.cell.v)

\* C10: with R = F.then(f) attached to a pending F, R is not available
\* before the promise is fulfilled nor before the continuation has run; once
\* set_value(v) has put the continuation in the queue, a reactor that keeps
\* running queued tasks eventually runs it (unless the program aborts), and
\* that run makes R hold f(v).
C10_ThenEventuallyDelivers ==
    /\ []ResultWaits
    /\ [][ResultDelivered]_vars
    /\ \A t \in 1..MaxOps :
           (/\ t \in DOMAIN tasks
            /\ tasks[t].kind = "then" /\ tasks[t].attached
            /\ InQueue(queue, t) /\ tasks[t].cell.st = "result")
           ~> (crashed # "" \/ (t \in DOMAIN tasks /\ tasks[t].runs = 1))

C10_Witness ==
    \E t \in DOMAIN tasks : \E r \in DOMAIN futures :
        /\ tasks[t].kind = "then" /\ tasks[t].attached /\ tasks[t].func = "inc"
        /\ tasks[t].runs = 1
        /\ chans[chans[tasks[t].chan].src].set1 = ValueCell(1)
        /\ chans[tasks[t].chan].arg = ValueCell(1)
        /\ futures[r].alive /\ futures[r].chan = tasks[t].chan
        /\ futures[r].st = ValueCell(2)

\* ------------------------------------------------------------ forward_to
\* the program has constructed two promises
InitFwd ==
    /\ promises = <<[NewPromiseRec(1, TRUE) EXCEPT !.state = LocalLoc(1)],
                    [NewPromiseRec(2, TRUE) EXCEPT !.state = LocalLoc(2)]>>
    /\ futures = <<>>
    /\ tasks = <<>>
    /\ queue = <<>>
    /\ chans = <<NewChan("user", 0, ""), NewChan("user", 0, "")>>
    /\ crashed = ""
    /\ reports = <<>>
    /\ blocked = {}
    /\ ops = 0
    /\ ran = 0

\* f.forward_to(std::move(q)) on a future that is not q's own
ForwardTo(f, q, np) ==
    /\ crashed = ""
    /\ ops < MaxOps
    /\ futures[f].promise # q
    /\ Commit(forward_to(Heap, f, q, np))
    /\ ops' = ops + 1
    /\ UNCHANGED ran

NextFwd ==
    \/ \E p \in UserPromises : GetFuture(p)
    \/ \E p \in UserPromises, v \in Values : SetValue(p, v)
    \/ \E p \in UserPromises, e \in Excs : SetException(p, e)
    \/ \E p \in UserPromises : DestroyPromise(p)
    \/ \E f \in UserFutures : DestroyFuture(f)
    \/ \E f \in UserFutures, thread \in BOOLEAN : Get(f, thread)
    \/ \E f \in UserFutures, func \in Funcs, np \in BOOLEAN : Then(f, func, np)
    \/ \E f \in UserFutures, q \in UserPromises, np \in BOOLEAN : ForwardTo(f, q, np)
    \/ \E np \in BOOLEAN : RunTask(np)

FwdSpec == InitFwd /\ [][NextFwd]_vars

\* then-continuations that ran on the one value set on their source, to
\* whose future nothing else was applied, and whose result promise had been replaced, by forward_to, with the promise
\* of another channel on which nothing else was set
Forwarded ==
    {t \in DOMAIN tasks :
        /\ tasks[t].kind = "then" /\ tasks[t].attached /\ tasks[t].runs = 1
        /\ chans[chans[tasks[t].chan].src].set1.st = "result"
        /\ ~chans[chans[tasks[t].chan].src].setMulti
        /\ \A i \in DOMAIN chans : chans[i].src = chans[tasks[t].chan].src => i = tasks[t].chan
        /\ promises[tasks[t].prm].chan \notin {0, tasks[t].chan}
        /\ ~chans[promises[tasks[t].prm].chan].setMulti}

\* C11: after p.get_future().then(f).forward_to(q), p.set_value(v) and the
\* run of the enqueued continuation, the future obtained from q holds f(v)
\* and get() on it returns f(v); while a thread is blocked in get() on that
\* future, f(v) is in the cell of the task that will wake it, and once a
\* continuation was attached to that future, in the continuation's cell.
C11_ForwardedThen ==
    crashed = "" =>
        \A t \in Forwarded :
            LET k == tasks[t].chan
                c2 == promises[tasks[t].prm].chan
                fv == futurize_apply(tasks[t].func, chans[chans[k].src].set1.v)
            IN /\ chans[c2].set1 = fv
               /\ \A r \in DOMAIN futures :
                      (futures[r].alive /\ futures[r].chan = c2 /\ futures[r].st.st # "invalid"
                         /\ r \notin blocked /\ ~chans[c2].consumed)
                          => futures[r].st = fv
               /\ \A u \in DOMAIN tasks :
                      (tasks[u].alive /\ tasks[u].kind # "wake" /\ tasks[u].runs = 0
                         /\ chans[tasks[u].chan].src = c2
                         /\ \A i \in DOMAIN chans : chans[i].src = c2 => i = tasks[u].chan)
                          => tasks[u].cell = fv
               /\ \A w \in DOMAIN tasks :
                      (tasks[w].alive /\ tasks[w].kind = "wake" /\ tasks[w].wfor \in blocked
                         /\ futures[tasks[w].wfor].chan = c2)
                          => tasks[w].cell = fv
               /\ \A i \in DOMAIN chans[c2].got : chans[c2].got[i] = fv

C11_Witness ==
    /\ crashed = ""
    /\ \E t \in Forwarded : \E r \in DOMAIN futures :
           /\ tasks[t].func = "inc"
           /\ chans[chans[tasks[t].chan].src].set1 = ValueCell(1)
           /\ futures[r].alive /\ futures[r].chan = promises[tasks[t].prm].chan
           /\ chans[futures[r].chan].kind = "user"
           /\ futures[r].st = ValueCell(2)

\* ------------------------------------------------------- move assignment
\* promise::operator=(promise&&): destroy *this, then move-construct it
\* from x in place
promise_assign(H, d, x) == promise_move(destroy_promise(H, d), d, x)

\* future::future(future&&) constructing the future object d in place
future_move_at(H, d, x) ==
    IF ~Ok(H) THEN H
    ELSE LET p == H.fu[x].promise
             H1 == [H EXCEPT !.fu[d] = [alive |-> TRUE, promise |-> p, st |-> H.fu[x].st,
                                        chan |-> H.fu[x].chan]]
             H2 == IF p # 0
                   THEN [detach_promise(H1, x) EXCEPT !.fu[d].promise = p, !.pr[p].future = d,
                                                      !.pr[p].state = FutLoc(d)]
                   ELSE H1
         IN [H2 EXCEPT !.fu[x].st = Invalid]

\* future::operator=(future&&): destroy *this, then move-construct it from
\* x in place
future_assign(H, d, x) == future_move_at(destroy_future(H, d), d, x)

AssignPromise(d, x) ==
    /\ crashed = ""
    /\ ops < MaxOps
    /\ d # x
    /\ Commit(promise_assign(Heap, d, x))
    /\ ops' = ops + 1
    /\ UNCHANGED ran

AssignFuture(d, x) ==
    /\ crashed = ""
    /\ ops < MaxOps
    /\ d # x
    /\ Commit(future_assign(Heap, d, x))
    /\ ops' = ops + 1
    /\ UNCHANGED ran

NextMove ==
    \/ \E p \in UserPromises : GetFuture(p)
    \/ \E p \in UserPromises, v \in Values : SetValue(p, v)
    \/ \E p \in UserPromises, e \in Excs : SetException(p, e)
    \/ \E p \in UserPromises : MovePromise(p)
    \/ \E d \in UserPromises, x \in UserPromises : AssignPromise(d, x)
    \/ \E f \in UserFutures : MoveFuture(f)
    \/ \E d \in UserFutures, x \in UserFutures : AssignFuture(d, x)
    \/ \E p \in UserPromises : DestroyPromise(p)
    \/ \E f \in UserFutures : DestroyFuture(f)
    \/ \E f \in UserFutures, thread \in BOOLEAN : Get(f, thread)
    \/ \E np \in BOOLEAN : RunTask(np)

MoveSpec == Init /\ [][NextMove]_vars

\* C12: after any sequence of move constructions and move assignments of a
\* promise and of its future, the one outcome set on the promise (a value
\* or an exception) is what the future at its final location holds and
\* what get() on it returns; the objects moved from hold nothing.
C12_MovesKeepOutcome ==
    crashed = "" =>
    \A k \in PlainChans :
        (available(chans[k].set1) /\ ~chans[k].setMulti) =>
            /\ chans[k].got \in {<<>>, <<chans[k].set1>>}
            /\ \A f \in DOMAIN futures :
                   (futures[f].alive /\ futures[f].chan = k /\ f \notin blocked)
                       => futures[f].st \in {chans[k].set1, Invalid}
            /\ \A f, g \in DOMAIN futures :
                   (/\ futures[f].chan = k /\ futures[g].chan = k
                    /\ futures[f].st.st # "invalid" /\ futures[g].st.st # "invalid") => f = g
            /\ \A p, q \in DOMAIN promises :
                   (/\ promises[p].alive /\ promises[q].alive
                    /\ promises[p].chan = k /\ promises[q].chan = k) => p = q

C12_Witness ==
    /\ crashed = ""
    /\ \E k \in PlainChans :
           /\ chans[k].set1 = ValueCell(1) /\ ~chans[k].setMulti
           /\ chans[k].got = <<ValueCell(1)>>
           /\ \E p \in DOMAIN promises : p > 1 /\ promises[p].alive /\ promises[p].chan = k
           /\ Cardinality({f \in DOMAIN futures : futures[f].chan = k}) > 1

\* the promise/future pair whose outcome a task's cell carries
OwnerChan(t) ==
    IF tasks[t].kind = "wake" THEN tasks[t].chan ELSE chans[tasks[t].chan].src

\* the locations of pair k that hold an outcome (a value or a failure)
OutcomeLocs(k) ==
    {LocalLoc(p) : p \in {x \in DOMAIN promises :
                             promises[x].chan = k /\ available(promises[x].local)}}
    \cup {FutLoc(f) : f \in {x \in DOMAIN futures :
                                futures[x].chan = k /\ available(futures[x].st)}}
    \cup {TaskLoc(t) : t \in {x \in DOMAIN tasks :
                                 OwnerChan(x) = k /\ available(tasks[x].cell)}}

\* the future of pair k was not used again after then / then_wrapped took it
UsedOnce(k) ==
    /\ ~(chans[k].consumed /\ chans[k].got # <<>>)
    /\ ~(chans[k].consumed /\ \E t \in DOMAIN tasks : tasks[t].kind = "wake" /\ tasks[t].chan = k)
    /\ Cardinality({j \in DOMAIN chans : chans[j].src = k}) <= 1

\* a non-null cell pointer addresses the promise's own cell, the linked
\* future's or the held task's
PointerShape(p) ==
    LET P == promises[p]
    IN /\ P.chan # 0
       /\ \/ P.state = LocalLoc(p) /\ P.future = 0 /\ P.task = 0
          \/ P.future # 0 /\ P.state = FutLoc(P.future) /\ P.task = 0
          \/ P.task # 0 /\ P.state = TaskLoc(P.task) /\ P.future = 0
                  /\ OwnerChan(P.task) = P.chan

OneLocation ==
    /\ \A k \in DOMAIN chans : UsedOnce(k) => Cardinality(OutcomeLocs(k)) <= 1
    /\ \A p \in DOMAIN promises :
           (promises[p].alive /\ promises[p].state # NullLoc) =>
               /\ PointerShape(p)
               /\ (UsedOnce(promises[p].chan) /\ CellAt(Heap, promises[p].state).st # "invalid")
                      => OutcomeLocs(promises[p].chan) \subseteq {promises[p].state}

\* every step that moves a cell leaves the cell it was moved from invalid
MovedFromInvalid ==
    /\ \A p \in UserPromises :
           /\ (GetFuture(p) /\ crashed' = "") =>
                  (promises'[p].local = Invalid
                   /\ futures'[promises'[p].future].st = promises[p].local)
           /\ MovePromise(p) =>
                  /\ promises'[p].state = NullLoc
                  /\ promises[p].state = LocalLoc(p) =>
                         /\ promises'[p].local = Invalid
                         /\ promises'[Len(promises')].local = promises[p].local
    /\ \A f \in UserFutures :
           /\ MoveFuture(f) =>
                  (futures'[f].st = Invalid /\ futures'[Len(futures')].st = futures[f].st)
           /\ \A thread \in BOOLEAN :
                  (Get(f, thread) /\ crashed' = "" /\ available(futures[f].st))
                      => futures'[f].st = Invalid
           /\ \A func \in Funcs, np \in BOOLEAN :
                  (Then(f, func, np) /\ crashed' = "" /\ available(futures[f].st))
                      => (futures'[f].st = Invalid
                          /\ (np => tasks'[Len(tasks')].cell = futures[f].st))
    /\ \A np \in BOOLEAN :
           (RunTask(np) /\ crashed' = "") => tasks'[Head(queue)].cell = Invalid

C14_BackPointers ==
    /\ \A p \in DOMAIN promises :
           promises[p].future # 0 =>
               /\ promises[p].alive
               /\ futures[promises[p].future].alive
               /\ futures[promises[p].future].promise = p
               /\ promises[p].state = FutLoc(promises[p].future)
    /\ \A f \in DOMAIN futures :
           futures[f].promise # 0 =>
               /\ futures[f].alive
               /\ promises[futures[f].promise].alive
               /\ promises[futures[f].promise].future = f

C14_Witness ==
    /\ crashed = ""
    /\ \E p \in DOMAIN promises : \E f \in DOMAIN futures :
           /\ p > 1 /\ f > 1
           /\ promises[p].future = f /\ futures[f].promise = p
           /\ \E g \in DOMAIN futures : ~futures[g].alive
           /\ \A q \in DOMAIN promises : q # p => promises[q].future = 0

\* the destructor of a future reports the failure it holds, once, and
\* nothing when it holds none
ReportOnDestroy ==
    /\ \A f \in UserFutures :
           DestroyFuture(f) =>
               reports' = IF failed(futures[f].st) THEN Append(reports, futures[f].st.ex)
                          ELSE reports
    /\ \A d \in UserFutures, x \in UserFutures :
           AssignFuture(d, x) =>
               reports' = IF failed(futures[d].st) THEN Append(reports, futures[d].st.ex)
                          ELSE reports

\* the failure of a pair is reported at most once, and only after no live
\* future holds it any more
ReportedOnce ==
    /\ Len(reports) <= 1
    /\ \A k \in PlainChans :
           reports # <<>> =>
               /\ chans[k].got = <<>>
               /\ \A f \in DOMAIN futures : futures[f].chan = k => ~failed(futures[f].st)
               /\ reports[1] \in {BrokenPromise} \cup
                      (IF failed(chans[k].set1) THEN {chans[k].set1.ex} ELSE {})

\* C15: a future holding a failure that is destroyed without the failure
\* having been consumed has report_failed_future invoked exactly once with
\* that failure, also when it was moved before: the futures moved from
\* report nothing.
C15_DroppedFailureReported == []ReportedOnce /\ [][ReportOnDestroy]_vars

C15_Witness ==
    /\ crashed = ""
    /\ reports = <<"E1">>
    /\ Len(futures) >= 2
    /\ \A f \in DOMAIN futures : ~futures[f].alive

\* ------------------------------------------------- consuming a failure
\* future::get_exception: get_available_state().get_exception()
get_exception(H, f) ==
    IF ~Ok(H) THEN H
    ELSE LET c == H.fu[f].st
         IN IF ~failed(c) THEN Abort(H, "assert_get_exception_failed")
            ELSE [get_available_state(H, f) EXCEPT !.ch[H.fu[f].chan].got = Append(@, c)]

\* future::ignore_ready_future: _state.ignore()
ignore_ready_future(H, f) ==
    IF ~Ok(H) THEN H
    ELSE IF H.fu[f].st.st = "future" THEN Abort(H, "assert_ignore_not_pending")
    ELSE [H EXCEPT !.fu[f].st = Invalid]

GetException(f) ==
    /\ crashed = ""
    /\ ops < MaxOps
    /\ Commit(get_exception(Heap, f))
    /\ ops' = ops + 1
    /\ UNCHANGED ran

IgnoreReady(f) ==
    /\ crashed = ""
    /\ ops < MaxOps
    /\ Commit(ignore_ready_future(Heap, f))
    /\ ops' = ops + 1
    /\ UNCHANGED ran

\* two promises whose futures fail and are consumed in every way
NextConsume ==
    \/ \E p \in UserPromises : GetFuture(p)
    \/ \E p \in UserPromises, e \in Excs : SetException(p, e)
    \/ \E p \in UserPromises : DestroyPromise(p)
    \/ \E f \in UserFutures : DestroyFuture(f)
    \/ \E f \in UserFutures, thread \in BOOLEAN : Get(f, thread)
    \/ \E f \in UserFutures : GetException(f)
    \/ \E f \in UserFutures : IgnoreReady(f)
    \/ \E f \in UserFutures, func \in Funcs, np \in BOOLEAN : Then(f, func, np)
    \/ \E f \in UserFutures, q \in UserPromises, np \in BOOLEAN : ForwardTo(f, q, np)
    \/ \E np \in BOOLEAN : RunTask(np)

ConsumeSpec == InitFwd /\ [][NextConsume]_vars

\* each way of consuming the failure of future f takes it out of f's cell
\* without a report, and the destructor of a future whose cell is invalid
\* reports nothing
ConsumedNotReported ==
    \A f \in UserFutures :
        /\ failed(futures[f].st) =>
               /\ \A thread \in BOOLEAN :
                      Get(f, thread) => (futures'[f].st = Invalid /\ reports' = reports)
               /\ GetException(f) => (futures'[f].st = Invalid /\ reports' = reports)
               /\ IgnoreReady(f) => (futures'[f].st = Invalid /\ reports' = reports)
               /\ \A func \in Funcs, np \in BOOLEAN :
                      Then(f, func, np) => (futures'[f].st = Invalid /\ reports' = reports)
               /\ \A q \in UserPromises, np \in BOOLEAN :
                      (ForwardTo(f, q, np) /\ promises[q].state # NullLoc)
                          => (futures'[f].st = Invalid /\ reports' = reports)
        /\ (futures[f].st = Invalid /\ DestroyFuture(f)) => reports' = reports

\* a failure that get() or get_exception() returned is in no live cell of
\* the pair and, no other pair carrying the same failure, is never reported
ConsumedGone ==
    \A k \in PlainChans :
        (failed(chans[k].set1) /\ ~chans[k].setMulti /\ chans[k].got = <<chans[k].set1>>) =>
            /\ \A f \in DOMAIN futures : futures[f].chan = k => ~failed(futures[f].st)
            /\ (\A j \in DOMAIN chans \ {k} : chans[j].set1 # chans[k].set1)
                   => \A i \in DOMAIN reports : reports[i] # chans[k].set1.ex

MaxApply == 1
VoidFuncs == {"void_ok", "void_throw"}
FutureFuncs == {"fut_ready", "fut_failed", "fut_throw", "fut_pending"}
FutExc == "E2"
EmptyValue == ValueCell(0)

\* ::seastar::apply(func, tuple): the tuple is unpacked into the argument list
apply_tuple_args(args) == args[1]

\* a void lifter that reports success whatever the callable did
futurize_void_apply_no_catch(func) == EmptyValue

\* futurize<void>::apply through do_void_futurize_helper<void>: the state of
\* the future returned
futurize_void_apply(func) ==
    IF func = "void_ok" THEN EmptyValue ELSE ExcCell(FuncExc)

\* futurize<future<Args...>>::apply: the future the callable returned, or a
\* failed one when it threw; the heap with that future appended
futurize_future_apply(H, func, a, k, p) ==
    IF ~Ok(H) THEN H
    ELSE CASE func = "fut_ready" -> make_future(H, ValueCell(a + 1), k)
           [] func = "fut_failed" -> make_future(H, ExcCell(FutExc), k)
           [] func = "fut_pending" -> get_future(H, p)
           [] OTHER -> make_future(H, ExcCell(FuncExc), k)

\* futurize<R>::apply for the callable's return type R, on argument a
futurize_dispatch(H, func, a, k, p) ==
    IF func \in Funcs THEN make_future(H, futurize_apply(func, a), k)
    ELSE IF func \in VoidFuncs THEN make_future(H, futurize_void_apply(func), k)
    ELSE futurize_future_apply(H, func, a, k, p)

\* futurize<R>::apply(func, a) (entry = "list") and
\* futurize<R>::apply(func, std::tuple(a)) (entry = "tuple")
Apply(entry, func, a, p) ==
    /\ crashed = ""
    /\ ops < MaxOps
    /\ Cardinality({k \in 1..Len(chans) : chans[k].kind \in {"apply", "apply_tuple"}}) < MaxApply
    /\ func = "fut_pending" =>
           (promises[p].future = 0 /\ promises[p].state # NullLoc /\ promises[p].task = 0)
    /\ LET k == Len(chans) + 1
           arg == IF entry = "tuple" THEN apply_tuple_args(<<a>>) ELSE a
           H0 == [Heap EXCEPT !.ch = Append(@, [NewChan(IF entry = "tuple" THEN "apply_tuple"
                                                        ELSE "apply",
                                                        IF func = "fut_pending"
                                                        THEN promises[p].chan ELSE 0, func)
                                                EXCEPT !.calls = 1, !.arg = ValueCell(a)])]
       IN Commit(futurize_dispatch(H0, func, arg, k, p))
    /\ ops' = ops + 1
    /\ UNCHANGED ran

NextApply ==
    \/ \E entry \in {"list", "tuple"}, func \in Funcs \cup VoidFuncs \cup FutureFuncs,
          a \in Values, p \in UserPromises : Apply(entry, func, a, p)
    \/ \E p \in UserPromises, v \in Values : SetValue(p, v)
    \/ \E p \in UserPromises, e \in Excs : SetException(p, e)
    \/ \E f \in UserFutures : DestroyFuture(f)
    \/ \E f \in UserFutures, thread \in BOOLEAN : Get(f, thread)
    \/ \E np \in BOOLEAN : RunTask(np)

ApplySpec == Init /\ [][NextApply]_vars

ApplyChans == {k \in DOMAIN chans : chans[k].kind \in {"apply", "apply_tuple"}}
Throwing == {"throw", "void_throw", "fut_throw"}

\* C17: every futurize::apply call, through the argument list or the argument
\* tuple, completes without an exception escaping and returns a new future:
\* already failed with x when the callable raised x, ready with the returned
\* value (the empty value for a void callable) when it returned normally, and
\* the callable's own future when it returned one.
ApplyLifts ==
    (crashed = "" /\ Len(chans') = Len(chans) + 1
       /\ chans'[Len(chans')].kind \in {"apply", "apply_tuple"}) =>
        LET c == chans'[Len(chans')]
            f == Len(futures')
            a == c.arg.v
        IN /\ crashed' = ""
           /\ Len(futures') = Len(futures) + 1
           /\ futures'[f].alive
           /\ c.func \in Throwing =>
                  futures'[f].st = ExcCell(FuncExc) /\ futures'[f].promise = 0
           /\ c.func = "inc" => futures'[f].st = ValueCell(a + 1)
           /\ c.func = "void_ok" => futures'[f].st = EmptyValue
           /\ c.func = "fut_ready" => futures'[f].st = ValueCell(a + 1)
           /\ c.func = "fut_failed" => futures'[f].st = ExcCell(FutExc)
           /\ c.func = "fut_pending" =>
                  /\ futures'[f].chan = c.src
                  /\ \E p \in DOMAIN promises :
                        /\ promises[p].chan = c.src /\ promises[p].future = 0
                        /\ promises'[p].future = f /\ futures'[f].promise = p
                        /\ futures'[f].st = CellAt(Heap, promises[p].state)

C17_ApplyNeverThrows == [][ApplyLifts]_vars

\* the tuple entry point has lifted a callable that raised
C17_Witness ==
    /\ crashed = ""
    /\ \E k \in ApplyChans :
          /\ chans[k].kind = "apply_tuple" /\ chans[k].func \in Throwing
          /\ \E f \in DOMAIN futures :
                futures[f].chan = k /\ futures[f].st = ExcCell(FuncExc)

\* ------------------------------------------------------------ then_wrapped
WrappedChans == {j \in DOMAIN chans : chans[j].kind = "wrapped"}

\* the continuation of then_wrapped call j has run
WrappedRan(j) ==
    \E t \in DOMAIN tasks : tasks[t].kind = "wrapped" /\ tasks[t].chan = j /\ tasks[t].runs > 0

\* the callable of every then_wrapped call is invoked at most once, and once
\* exactly when the call was inline or its continuation has run; what it is
\* given is available and, the source future having been used for this call
\* only, is the outcome of the source: the one outcome set on the source's
\* promise, or broken_promise when that promise was dropped
WrappedOnce ==
    crashed = "" =>
    \A j \in WrappedChans :
        LET s == chans[j].src
            sole == s # 0 /\ \A i \in DOMAIN chans : chans[i].src = s => i = j
        IN /\ chans[j].calls = (IF chans[j].inl \/ WrappedRan(j) THEN 1 ELSE 0)
           /\ chans[j].calls = 1 =>
                 /\ available(chans[j].arg)
                 /\ (sole /\ available(chans[s].set1) /\ ~chans[s].setMulti)
                        => chans[j].arg = chans[s].set1
                 /\ (sole /\ chans[s].broken /\ chans[s].set1 = Pending)
                        => chans[j].arg = ExcCell(BrokenPromise)

\* a then_wrapped call runs the callable inline, on the future's own outcome,
\* exactly when the future is available and need_preempt() is false;
\* otherwise it calls nothing and schedules one continuation, which holds the
\* outcome and is queued at once when the future was available; a
\* continuation that runs calls the callable once on the outcome in its cell
WrappedStep ==
    /\ \A f \in UserFutures : \A func \in WrappedFuncs : \A np \in BOOLEAN :
          (ThenWrapped(f, func, np) /\ crashed' = "")
          => LET j == Len(chans) + 1
                 t == Len(tasks) + 1
                 c == futures[f].st
             IN /\ Len(chans') = j
                /\ chans'[j].kind = "wrapped"
                /\ chans'[j].inl = (available(c) /\ ~np)
                /\ chans'[j].inl =>
                      /\ chans'[j].calls = 1 /\ chans'[j].arg = c
                      /\ queue' = queue /\ tasks' = tasks
                      /\ futures'[Len(futures')].st = wrapped_result(func, c)
                /\ ~chans'[j].inl =>
                      /\ chans'[j].calls = 0
                      /\ Len(tasks') = t
                      /\ tasks'[t].kind = "wrapped" /\ tasks'[t].chan = j
                      /\ tasks'[t].func = func /\ tasks'[t].runs = 0
                      /\ available(c) => (tasks'[t].cell = c /\ InQueue(queue', t))
    /\ \A np \in BOOLEAN :
          (RunTask(np) /\ crashed' = "" /\ tasks[Head(queue)].kind = "wrapped")
          => LET T == tasks[Head(queue)]
             IN /\ available(T.cell)
                /\ chans[T.chan].calls = 0
                /\ chans'[T.chan].calls = 1
                /\ chans'[T.chan].arg = T.cell

\* C18: then_wrapped(f) invokes f exactly once for every source future that
\* resolves, with a value or with a failure, on an available future that
\* carries the source's outcome; inline when the source is available and
\* need_preempt() is false, otherwise from the scheduled continuation.
C18_WrappedAlwaysInvoked == []WrappedOnce /\ [][WrappedStep]_vars

\* a scheduled then_wrapped callable has been called on the failure set on
\* the source's promise, and an inline one on a value
C18_Witness ==
    /\ crashed = ""
    /\ \E j \in WrappedChans : \E t \in DOMAIN tasks :
          /\ ~chans[j].inl /\ chans[j].calls = 1
          /\ chans[j].arg = ExcCell("E1")
          /\ chans[j].src # 0 /\ chans[chans[j].src].set1 = ExcCell("E1")
          /\ tasks[t].kind = "wrapped" /\ tasks[t].chan = j /\ tasks[t].runs = 1

\* ----------------------------------------------------------------- finally
\* std::nested_exception(): holds the exception being handled when it is
\* constructed
nested_exception(cur) == "nested_exception<" \o cur \o ">"

\* the exception std::throw_with_nested builds from t when t's type does not
\* derive from std::nested_exception: t, carrying the exception being handled
with_nested(t, cur) == t \o "<" \o cur \o ">"

\* std::throw_with_nested(t) while cur is being handled; derives says that
\* t's type is or derives from std::nested_exception, and then t itself is
\* thrown
throw_with_nested(t, derives, cur) == IF derives THEN t ELSE with_nested(t, cur)

\* future::rethrow_with_nested on a future holding c while cur is being
\* handled: the state of the future that comes out, returned by the function
\* or made by the enclosing futurize::apply from the exception it throws
rethrow_with_nested(c, cur) ==
    IF ~failed(c) THEN ExcCell(cur)
    ELSE ExcCell(throw_with_nested(nested_exception(cur), TRUE, c.ex))

\* finally_body<Func, false>::operator() on a future holding c
finally_body_sync(func, c) ==
    IF func = "void_ok" THEN c ELSE rethrow_with_nested(c, FuncExc)

\* a finally lambda that returns what the callable's future held
finally_lambda_returns_f_res(c, o) ==
    IF ~failed(o) THEN o ELSE rethrow_with_nested(c, o.ex)

\* the lambda finally_body<Func, true> hands to then_wrapped, called on the
\* callable's outcome o with the captured future holding c
finally_lambda(c, o) ==
    IF ~failed(o) THEN c ELSE rethrow_with_nested(c, o.ex)

\* history: the outcome of the callable of finally-call k
NoteFinallyFunc(H, k, o) ==
    IF ~Ok(H) THEN H ELSE [H EXCEPT !.ch[k].got = <<o>>]

\* finally_body::operator() of finally-call k on a future holding c; the
\* future it returns is the last of H.fu.  np2 is the answer of
\* need_preempt() inside the then_wrapped of finally_body<Func, true>; the
\* callable "fut_pending" makes a promise, keeps it for the program to
\* fulfil, and returns its future
finally_body(H, func, c, k, np2) ==
    IF ~Ok(H) THEN H
    ELSE LET H0 == NoteCall(H, k, c)
         IN IF func \in VoidFuncs
            THEN make_future(NoteFinallyFunc(H0, k, futurize_void_apply(func)),
                             finally_body_sync(func, c), k)
            ELSE LET g == Len(H0.fu) + 1
                     p == Len(H0.pr) + 1
                     Hp == IF func = "fut_pending"
                           THEN AllocPromise([H0 EXCEPT !.ch = Append(@, NewChan("user", 0, ""))],
                                             Len(H0.ch) + 1, TRUE)
                           ELSE H0
                     H1 == futurize_future_apply(Hp, func, 0, 0, p)
                 IN IF ~Ok(H1) THEN H1
                    ELSE LET o == H1.fu[g].st
                         IN IF available(o) /\ ~np2
                            THEN LET H2 == NoteFinallyFunc(get_available_state(H1, g), k, o)
                                 IN destroy_future(make_future(H2, finally_lambda(c, o), k), g)
                            ELSE LET cap == g + 1
                                     H2 == make_future(H1, c, 0)
                                     pr == Len(H2.pr) + 1
                                     H3 == get_future(AllocPromise(H2, k, FALSE), pr)
                                     H4 == future_schedule(H3, g,
                                               NewTask("finally_inner", func, pr, Pending, cap, k))
                                 IN destroy_future(H4, g)

\* future::finally: then_wrapped_impl on finally_body
finally(H, f, func, np, np2) ==
    IF ~Ok(H) THEN H
    ELSE LET c == H.fu[f].st
             k == Len(H.ch) + 1
             Ha == [H EXCEPT !.ch[H.fu[f].chan].consumed = TRUE]
             H0 == [Ha EXCEPT !.ch = Append(@, NewChan("finally", H.fu[f].chan, func))]
         IN IF available(c) /\ ~np
            THEN finally_body([get_available_state(H0, f) EXCEPT !.ch[k].inl = TRUE],
                              func, c, k, np2)
            ELSE LET pr == Len(H0.pr) + 1
                     H2 == get_future(AllocPromise(H0, k, FALSE), pr)
                 IN future_schedule(H2, f, NewTask("finally", func, pr, Pending, 0, k))

\* the lambda then_wrapped_impl hands to schedule() for finally_body
finally_outer_lambda(H, t, np, np2) ==
    LET T == H.tk[t]
        H1 == finally_body([H EXCEPT !.tk[t].cell = Invalid], T.func, T.cell, T.chan, np2)
        tmp == Len(H1.fu)
    IN IF ~Ok(H1) THEN H1
       ELSE destroy_future(forward_to(H1, tmp, T.prm, np), tmp)

\* the lambda the then_wrapped of finally_body<Func, true> hands to
\* schedule(); T.wfor is the future the lambda captured
finally_inner_lambda(H, t, np) ==
    LET T == H.tk[t]
        o == T.cell
        c == H.fu[T.wfor].st
        H1 == NoteFinallyFunc([H EXCEPT !.tk[t].cell = Invalid,
                                        !.fu[T.wfor].st = IF failed(o) /\ ~failed(c)
                                                          THEN c ELSE Invalid],
                              T.chan, o)
        tmp == Len(H1.fu) + 1
    IN destroy_future(forward_to(make_future(H1, finally_lambda(c, o), 0), tmp, T.prm, np), tmp)

\* continuation::run_and_dispose for the continuations of finally: the
\* lambda, then delete this, which destroys what the lambda captured
finally_run_and_dispose(H, t, np, np2) ==
    LET T == H.tk[t]
        H1 == IF T.kind = "finally" THEN finally_outer_lambda(H, t, np, np2)
              ELSE finally_inner_lambda(H, t, np)
        H2 == IF T.kind = "finally_inner" THEN destroy_future(H1, T.wfor) ELSE H1
        H3 == destroy_promise(H2, T.prm)
    IN IF ~Ok(H3) THEN H3 ELSE [H3 EXCEPT !.tk[t].alive = FALSE, !.tk[t].cell = Invalid]

FinallyFuncs == VoidFuncs \cup FutureFuncs
MaxFinally == 1

\* futures the program can name: not the ones captured by a continuation
OwnFutures ==
    {f \in UserFutures :
        \A t \in DOMAIN tasks :
            ~(tasks[t].alive /\ tasks[t].kind = "finally_inner" /\ tasks[t].wfor = f)}

Finally(f, func, np, np2) ==
    /\ crashed = ""
    /\ ops < MaxOps
    /\ ThenCalls < MaxFinally
    /\ Commit(finally(Heap, f, func, np, np2))
    /\ ops' = ops + 1
    /\ UNCHANGED ran

\* the reactor runs the task at the head of the queue
RunFinallyTask(np, np2) ==
    /\ crashed = ""
    /\ queue # <<>>
    /\ LET t == Head(queue)
           H == [Heap EXCEPT !.q = Tail(@), !.tk[t].runs = @ + 1]
       IN Commit(finally_run_and_dispose(H, t, np, np2))
    /\ ran' = ran + 1
    /\ UNCHANGED ops

NextFinally ==
    \/ \E p \in UserPromises : GetFuture(p)
    \/ \E p \in UserPromises, v \in Values : SetValue(p, v)
    \/ \E p \in UserPromises, e \in Excs : SetException(p, e)
    \/ \E p \in UserPromises : DestroyPromise(p)
    \/ \E f \in OwnFutures : DestroyFuture(f)
    \/ \E f \in OwnFutures, func \in FinallyFuncs, np, np2 \in BOOLEAN :
          Finally(f, func, np, np2)
    \/ \E np, np2 \in BOOLEAN : RunFinallyTask(np, np2)

FinallySpec == Init /\ [][NextFinally]_vars

FinallyChans == {j \in DOMAIN chans : chans[j].kind = "finally"}

\* the continuation then_wrapped scheduled for finally call j has run
FinallyRan(j) ==
    \E t \in DOMAIN tasks : tasks[t].kind = "finally" /\ tasks[t].chan = j /\ tasks[t].runs > 0

\* the future finally call j returned, until the program moves from it
FinallyResults(j) ==
    {r \in DOMAIN futures : futures[r].alive /\ futures[r].chan = j /\ ~chans[j].consumed}

\* C19: in F.finally(f), f is run at most once, and once as soon as F has
\* resolved and the call was inline or its continuation has run; it is run on
\* F's outcome whether that is a value or a failure; and when f has completed
\* without failure, by returning or through a returned future that resolved
\* with a value, the future finally returned holds exactly F's outcome.
C19_FinallyKeepsOutcome ==
    crashed = "" =>
    \A j \in FinallyChans :
        LET s == chans[j].src
            sole == s # 0 /\ \A i \in DOMAIN chans : chans[i].src = s => i = j
        IN /\ chans[j].calls = (IF chans[j].inl \/ FinallyRan(j) THEN 1 ELSE 0)
           /\ Len(chans[j].got) <= chans[j].calls
           /\ chans[j].calls = 1 =>
                 /\ available(chans[j].arg)
                 /\ (sole /\ available(chans[s].set1) /\ ~chans[s].setMulti)
                        => chans[j].arg = chans[s].set1
           /\ (chans[j].got # <<>> /\ ~failed(chans[j].got[1])) =>
                 \A r \in FinallyResults(j) : futures[r].st = chans[j].arg

\* f returned a future that resolved with a value after the failed F had
\* been handed to the scheduled continuation, and the result holds F's failure
C19_Witness ==
    /\ crashed = ""
    /\ \E j \in FinallyChans : \E r \in FinallyResults(j) :
          /\ chans[j].func = "fut_pending" /\ ~chans[j].inl
          /\ chans[j].calls = 1
          /\ chans[j].arg = ExcCell("E1")
          /\ chans[j].got = <<ValueCell(2)>>
          /\ futures[r].st = ExcCell("E1")

\* C20: in F.finally(f), when f has failed with x, by throwing or through a
\* returned future that resolved with x, the future finally returned is
\* failed: with x when F held a value, and with x carrying F's failure as
\* its nested cause when F held a failure.
C20_FuncFailureNested ==
    crashed = "" =>
    \A j \in FinallyChans :
        (chans[j].got # <<>> /\ failed(chans[j].got[1])) =>
            \A r \in FinallyResults(j) :
                futures[r].st = IF failed(chans[j].arg)
                                THEN ExcCell(with_nested(chans[j].got[1].ex, chans[j].arg.ex))
                                ELSE ExcCell(chans[j].got[1].ex)

\* ------------------------------------- handle_exception / handle_exception_type
\* handlers: returning a value, throwing, returning a ready, a failed or a
\* still-pending future ("h_fut_pending" makes a promise, keeps it for the
\* program to fulfil, and returns its future)
HandlerFuncs == {"h_value", "h_throw", "h_fut_ready", "h_fut_failed", "h_fut_pending"}
MaxHandle == 1

\* the exception types a handler given to handle_exception_type can name;
\* "any" stands for handle_exception, whose handler takes std::exception_ptr
ExKinds == {"E1", "E2"}
HandleExcs == Excs \cup {FutExc}

\* catch (ex_type&): does a failure e have the type K the handler takes
matches(e, K) == e = K

\* the value the handlers compute from the failure they are given
handler_value(e) == IF e = "E1" THEN 1 ELSE 2

HandleKind(K) == IF K = "any" THEN "handle" ELSE "handle_type_" \o K

\* an apply that answers a throwing handler with the failure it was handling
\* instead of the one the handler threw
handler_apply_no_catch(H, func, e, k) ==
    IF ~Ok(H) THEN H
    ELSE CASE func = "h_value" -> make_future(H, ValueCell(handler_value(e)), k)
           [] func = "h_throw" -> make_future(H, ExcCell(e), k)
           [] func = "h_fut_ready" -> make_future(H, ValueCell(handler_value(e) + 2), k)
           [] func = "h_fut_failed" -> make_future(H, ExcCell(FutExc), k)
           [] OTHER -> get_future(AllocPromise(H, k, TRUE), Len(H.pr) + 1)

\* futurize<func_ret>::apply(func, e): the future it returns is the last of
\* H.fu
handler_apply(H, func, e, k) ==
    IF ~Ok(H) THEN H
    ELSE CASE func = "h_value" -> make_future(H, ValueCell(handler_value(e)), k)
           [] func = "h_throw" -> make_future(H, ExcCell(FuncExc), k)
           [] func = "h_fut_ready" -> make_future(H, ValueCell(handler_value(e) + 2), k)
           [] func = "h_fut_failed" -> make_future(H, ExcCell(FutExc), k)
           [] OTHER -> get_future(AllocPromise(H, k, TRUE), Len(H.pr) + 1)

\* history: the outcome the lambda of handle-call k was run on
NoteHandled(H, k, c) ==
    IF ~Ok(H) THEN H ELSE [H EXCEPT !.ch[k].got = <<c>>]

\* the lambda handle_exception hands to then_wrapped, run through
\* futurize::apply on a future holding c
handle_exception_lambda(H, func, c, k) ==
    IF ~Ok(H) THEN H
    ELSE IF c.st = "invalid" THEN Abort(H, "assert_set_exception_pending")
    ELSE IF ~failed(c) THEN make_future(NoteHandled(H, k, c), ValueCell(c.v), k)
    ELSE handler_apply(NoteCall(NoteHandled(H, k, c), k, c), func, c.ex, k)

\* a handle_exception_type lambda that catches every failure
handle_exception_type_lambda_catch_all(H, func, K, c, k) ==
    handle_exception_lambda(H, func, c, k)

\* the lambda handle_exception_type hands to then_wrapped; a failure the
\* catch clause does not match leaves the lambda and futurize::apply makes
\* a failed future of it
handle_exception_type_lambda(H, func, K, c, k) ==
    IF ~Ok(H) THEN H
    ELSE IF c.st = "invalid" THEN Abort(H, "assert_set_exception_pending")
    ELSE IF ~failed(c) THEN make_future(NoteHandled(H, k, c), ValueCell(c.v), k)
    ELSE IF matches(c.ex, K)
    THEN handler_apply(NoteCall(NoteHandled(H, k, c), k, c), func, c.ex, k)
    ELSE make_future(NoteHandled(H, k, c), ExcCell(c.ex), k)

handle_lambda(H, func, K, c, k) ==
    IF K = "any" THEN handle_exception_lambda(H, func, c, k)
    ELSE handle_exception_type_lambda(H, func, K, c, k)

\* future::handle_exception (K = "any") and future::handle_exception_type:
\* then_wrapped_impl on the lambda
handle_exception(H, f, func, K, np) ==
    IF ~Ok(H) THEN H
    ELSE LET c == H.fu[f].st
             k == Len(H.ch) + 1
             Ha == [H EXCEPT !.ch[H.fu[f].chan].consumed = TRUE]
             H0 == [Ha EXCEPT !.ch = Append(@, NewChan(HandleKind(K), H.fu[f].chan, func))]
         IN IF available(c) /\ ~np
            THEN handle_lambda([get_available_state(H0, f) EXCEPT !.ch[k].inl = TRUE],
                               func, K, c, k)
            ELSE LET pr == Len(H0.pr) + 1
                     H2 == get_future(AllocPromise(H0, k, FALSE), pr)
                 IN future_schedule(H2, f, NewTask("handle", func, pr, Pending, 0, k))

\* the type the handler of handle-call k takes
KindOfCall(H, k) == CHOOSE K \in ExKinds \cup {"any"} : H.ch[k].kind = HandleKind(K)

\* continuation::run_and_dispose for the continuation then_wrapped_impl
\* scheduled: the lambda, forward_to the result promise, delete this
handle_run_and_dispose(H, t, np) ==
    LET T == H.tk[t]
        H1 == handle_lambda([H EXCEPT !.tk[t].cell = Invalid], T.func, KindOfCall(H, T.chan),
                            T.cell, T.chan)
        tmp == Len(H1.fu)
        H2 == IF ~Ok(H1) THEN H1 ELSE destroy_future(forward_to(H1, tmp, T.prm, np), tmp)
        H3 == destroy_promise(H2, T.prm)
    IN IF ~Ok(H3) THEN H3 ELSE [H3 EXCEPT !.tk[t].alive = FALSE, !.tk[t].cell = Invalid]

HandleException(f, func, K, np) ==
    /\ crashed = ""
    /\ ops < MaxOps
    /\ ThenCalls < MaxHandle
    /\ Commit(handle_exception(Heap, f, func, K, np))
    /\ ops' = ops + 1
    /\ UNCHANGED ran

RunHandleTask(np) ==
    /\ crashed = ""
    /\ queue # <<>>
    /\ LET t == Head(queue)
           H == [Heap EXCEPT !.q = Tail(@), !.tk[t].runs = @ + 1]
       IN Commit(handle_run_and_dispose(H, t, np))
    /\ ran' = ran + 1
    /\ UNCHANGED ops

NextHandle ==
    \/ \E p \in UserPromises : GetFuture(p)
    \/ \E p \in UserPromises, v \in Values : SetValue(p, v)
    \/ \E p \in UserPromises, e \in HandleExcs : SetException(p, e)
    \/ \E p \in UserPromises : DestroyPromise(p)
    \/ \E f \in UserFutures : DestroyFuture(f)
    \/ \E f \in UserFutures, func \in HandlerFuncs, K \in ExKinds \cup {"any"}, np \in BOOLEAN :
          HandleException(f, func, K, np)
    \/ \E np \in BOOLEAN : RunHandleTask(np)

HandleSpec == Init /\ [][NextHandle]_vars

HandleChans == {j \in DOMAIN chans : chans[j].kind = "handle"}
HandleTypeChans(K) == {j \in DOMAIN chans : chans[j].kind = HandleKind(K)}

\* the continuation scheduled for handle-call j has run
HandleRan(j) ==
    \E t \in DOMAIN tasks : tasks[t].kind = "handle" /\ tasks[t].chan = j /\ tasks[t].runs > 0

\* the future handle-call j returned, until the program moves from it
HandleResults(j) ==
    {r \in DOMAIN futures : futures[r].alive /\ futures[r].chan = j /\ ~chans[j].consumed}

\* the outcome of the handler of call j applied to failure e: what it
\* returned or threw, or what became of the promise whose future it returned
HandlerOutcome(j, e) ==
    CASE chans[j].func = "h_value" -> ValueCell(handler_value(e))
      [] chans[j].func = "h_throw" -> ExcCell(FuncExc)
      [] chans[j].func = "h_fut_ready" -> ValueCell(handler_value(e) + 2)
      [] chans[j].func = "h_fut_failed" -> ExcCell(FutExc)
      [] OTHER -> IF chans[j].broken /\ chans[j].set1 = Pending THEN ExcCell(BrokenPromise)
                  ELSE chans[j].set1

\* the lambda of call j ran once the call was inline or its continuation
\* ran, on the outcome of the source
HandledSource(j) ==
    LET s == chans[j].src
        sole == s # 0 /\ \A i \in DOMAIN chans : chans[i].src = s => i = j
    IN /\ Len(chans[j].got) = (IF chans[j].inl \/ HandleRan(j) THEN 1 ELSE 0)
       /\ chans[j].got # <<>> =>
             /\ available(chans[j].got[1])
             /\ (sole /\ available(chans[s].set1) /\ ~chans[s].setMulti)
                    => chans[j].got[1] = chans[s].set1

\* C21: F.handle_exception(h): when F resolved with a value the result holds
\* that value and h is never invoked; when F resolved with failure e, h is
\* invoked exactly once, on e, and the result holds h's outcome: the value it
\* returned, the failure it threw, or the outcome of the future it returned.
C21_HandleException ==
    crashed = "" =>
    \A j \in HandleChans :
        /\ HandledSource(j)
        /\ chans[j].calls = (IF chans[j].got # <<>> /\ failed(chans[j].got[1]) THEN 1 ELSE 0)
        /\ chans[j].calls = 1 => chans[j].arg = chans[j].got[1]
        /\ (chans[j].got # <<>> /\ ~chans[j].setMulti) =>
              \A r \in HandleResults(j) :
                  futures[r].st = IF failed(chans[j].got[1])
                                  THEN HandlerOutcome(j, chans[j].got[1].ex)
                                  ELSE chans[j].got[1]

\* the scheduled continuation ran on failure E1, the handler returned a
\* future that the program later fulfilled, and the result holds that value
C21_Witness ==
    /\ crashed = ""
    /\ \E j \in HandleChans : \E r \in HandleResults(j) :
          /\ chans[j].func = "h_fut_pending" /\ ~chans[j].inl
          /\ chans[j].calls = 1 /\ chans[j].arg = ExcCell("E1")
          /\ futures[r].st = ValueCell(2)

\* C22: F.handle_exception_type(h) with h taking type K: a failure of type K
\* is handed to h, once, and the result holds h's outcome; a failure of
\* another type is in the result unchanged and h is not invoked; a value is
\* in the result unchanged and h is not invoked.
C22_HandleExceptionType ==
    crashed = "" =>
    \A K \in ExKinds : \A j \in HandleTypeChans(K) :
        /\ HandledSource(j)
        /\ chans[j].calls = (IF /\ chans[j].got # <<>>
                                /\ failed(chans[j].got[1])
                                /\ chans[j].got[1].ex = K
                             THEN 1 ELSE 0)
        /\ chans[j].calls = 1 => chans[j].arg = chans[j].got[1]
        /\ (chans[j].got # <<>> /\ ~chans[j].setMulti) =>
              \A r \in HandleResults(j) :
                  futures[r].st = IF failed(chans[j].got[1]) /\ chans[j].got[1].ex = K
                                  THEN HandlerOutcome(j, K)
                                  ELSE chans[j].got[1]

\* a failure of another type went through a scheduled handle_exception_type
\* untouched
C22_Witness ==
    /\ crashed = ""
    /\ \E j \in HandleTypeChans("E1") : \E r \in HandleResults(j) :
          /\ ~chans[j].inl /\ HandleRan(j)
          /\ chans[j].func = "h_value"
          /\ chans[j].calls = 0
          /\ chans[j].got = <<ExcCell("E2")>>
          /\ futures[r].st = ExcCell("E2")

\* ------------------------------------------------------ get_future, once
\* P.get_future() would trip its assertion
GetFutureAsserts(p) == get_future(Heap, p).crashed = "assert_get_future"

\* C23 as stated: once a future was obtained from promise object P, whatever
\* became of that future (still linked, destroyed, consumed by get(), given
\* a continuation, rewired by forward_to), P.get_future() trips the
\* assertion.
C23_GetFutureOnce ==
    crashed = "" =>
    \A p \in UserPromises : promises[p].gave # "no" => GetFutureAsserts(p)

\* C23: once a future was obtained from promise object P and P was not the
\* target of a move assignment since, P.get_future() trips the assertion,
\* whether the future is still linked, was destroyed, was consumed by get()
\* or was given a continuation.
C23_GetFutureOnceUnlessAssigned ==
    crashed = "" =>
    \A p \in UserPromises : promises[p].gave = "yes" => GetFutureAsserts(p)

\* a second get_future() on a promise whose future is gone hit the assertion
C23_Witness ==
    /\ crashed = "assert_get_future"
    /\ \E p \in UserPromises :
          /\ promises[p].gave = "yes"
          /\ promises[p].future = 0 /\ promises[p].task = 0
          /\ \E f \in DOMAIN futures : ~futures[f].alive /\ futures[f].chan = promises[p].chan

\* ------------------------------------------------------------------ wait
\* a future::wait that consumes the cell as get() does
future_wait_consumes(H, f, thread) == future_get(H, f, thread)

\* future::wait; a fiber suspended here resumes in wait(), which the wake
\* task records in func
future_wait(H, f, thread) ==
    IF ~Ok(H) THEN H
    ELSE IF ~available(H.fu[f].st)
    THEN LET H1 == do_wait(H, f, thread)
         IN IF Ok(H1) /\ f \in H1.blocked THEN [H1 EXCEPT !.tk[Len(H1.tk)].func = "wait"] ELSE H1
    ELSE H

\* a wake task that switches the fiber in without moving its cell into the
\* waiting future
wake_run_wait_keeps_cell(H, t) ==
    LET f == H.tk[t].wfor
    IN IF ~Ok(H) THEN H
       ELSE [H EXCEPT !.tk[t].alive = FALSE, !.blocked = @ \ {f}]

\* thread_wake_task::run_and_dispose when the fiber it switches in was
\* suspended in wait(): do_wait() returns and so does wait()
wake_run_wait(H, t) ==
    LET f == H.tk[t].wfor
    IN IF ~Ok(H) THEN H
       ELSE [H EXCEPT !.fu[f].st = H.tk[t].cell, !.tk[t].cell = Invalid,
                      !.tk[t].alive = FALSE, !.blocked = @ \ {f}]

\* thread_wake_task::run_and_dispose
thread_wake_task_run(H, t) ==
    IF H.tk[t].func = "wait" THEN wake_run_wait(H, t) ELSE wake_run(H, t)

Wait(f, thread) ==
    /\ crashed = ""
    /\ ops < MaxOps
    /\ Commit(future_wait(Heap, f, thread))
    /\ ops' = ops + 1
    /\ UNCHANGED ran

\* the reactor runs the task at the head of the queue
RunWaitTask(np) ==
    /\ crashed = ""
    /\ queue # <<>>
    /\ LET t == Head(queue)
           H == [Heap EXCEPT !.q = Tail(@), !.tk[t].runs = @ + 1]
       IN Commit(IF tasks[t].kind = "wake" THEN thread_wake_task_run(H, t)
                 ELSE run_and_dispose(H, t, np))
    /\ ran' = ran + 1
    /\ UNCHANGED ops

NextWait ==
    \/ \E p \in UserPromises : GetFuture(p)
    \/ \E p \in UserPromises, v \in Values : SetValue(p, v)
    \/ \E p \in UserPromises, e \in Excs : SetException(p, e)
    \/ \E p \in UserPromises : DestroyPromise(p)
    \/ \E f \in UserFutures : MoveFuture(f)
    \/ \E f \in UserFutures : DestroyFuture(f)
    \/ \E f \in UserFutures, thread \in BOOLEAN : Get(f, thread)
    \/ \E f \in UserFutures, thread \in BOOLEAN : Wait(f, thread)
    \/ \E f \in UserFutures, func \in Funcs, np \in BOOLEAN : Then(f, func, np)
    \/ \E np \in BOOLEAN : RunWaitTask(np)

WaitSpec == Init /\ [][NextWait]_vars

\* the reactor keeps running queued tasks
WaitLiveSpec == WaitSpec /\ WF_ran(RunStep)

\* wait() on future f returns in this step: at once, or when the task that
\* wakes its fiber runs
WaitReturns(f) ==
    /\ crashed' = ""
    /\ \/ f \in UserFutures /\ f \notin blocked' /\ \E thread \in BOOLEAN : Wait(f, thread)
       \/ /\ f \in blocked /\ queue # <<>>
          /\ tasks[Head(queue)].kind = "wake" /\ tasks[Head(queue)].func = "wait"
          /\ tasks[Head(queue)].wfor = f
          /\ \E np \in BOOLEAN : RunWaitTask(np)

\* the outcome the future f holds when wait() returns in this step
WaitOutcome(f) ==
    IF f \in blocked THEN tasks[Head(queue)].cell
    ELSE IF available(futures[f].st) THEN futures[f].st
    ELSE ExcCell(BrokenPromise)

\* what wait() leaves on f: the outcome in the cell, a get() that returns it
\* with no fiber and no wake task, and a report if f is destroyed failed
WaitLeaves(f) ==
    LET c == WaitOutcome(f)
        k == futures[f].chan
        G == future_get(Heap', f, FALSE)
        D == destroy_future(Heap', f)
    IN /\ available(futures'[f].st)
       /\ futures'[f].st = c
       /\ futures'[f].alive
       /\ chans'[k].got = chans[k].got
       /\ G.crashed = "" /\ G.blocked = blocked' /\ G.tk = tasks' /\ G.q = queue'
       /\ G.ch[k].got = Append(chans'[k].got, c)
       /\ IF failed(c) THEN D.reports = Append(reports', c.ex) ELSE D.reports = reports'

WaitStep == \A f \in DOMAIN futures : WaitReturns(f) => WaitLeaves(f)

\* C24: wait() does not consume: when wait() returns, the future is available
\* with the outcome still in its cell, a following get() returns that value
\* or raises that failure without suspending, and a failed future destroyed
\* after wait() without get() reports its failure.
C24_WaitKeepsOutcome == [][WaitStep]_vars

C24_Witness ==
    /\ crashed = ""
    /\ \E t \in DOMAIN tasks : \E f \in DOMAIN futures :
          /\ tasks[t].kind = "wake" /\ tasks[t].func = "wait" /\ tasks[t].runs = 1
          /\ tasks[t].wfor = f
          /\ ~futures[f].alive
          /\ chans[futures[f].chan].got = <<>>
          /\ reports = <<"E1">>


\* the wake task of a suspended fiber: one per blocked future, attached to
\* the promise with a pending cell, or in the queue with the outcome
WakeTaskOf(f) ==
    {t \in DOMAIN tasks : tasks[t].kind = "wake" /\ tasks[t].wfor = f /\ tasks[t].alive}

WakeTaskHeld(t) ==
    IF InQueue(queue, t)
    THEN /\ available(tasks[t].cell) /\ tasks[t].enq = 1
         /\ \A p \in DOMAIN promises : promises[p].task # t
    ELSE /\ tasks[t].cell = Pending /\ tasks[t].enq = 0
         /\ \E p \in DOMAIN promises :
               promises[p].alive /\ promises[p].task = t /\ promises[p].state = TaskLoc(t)

FiberSuspended ==
    crashed = "" =>
    \A f \in blocked :
        /\ futures[f].alive /\ futures[f].promise = 0
        /\ Cardinality(WakeTaskOf(f)) = 1
        /\ \A t \in WakeTaskOf(f) : tasks[t].runs = 0 /\ tasks[t].attached /\ WakeTaskHeld(t)

\* get() or wait() from a fiber on a pending, linked future attaches a new
\* wake task to the promise and switches the fiber out
SuspendStep ==
    \A f \in UserFutures : \A thread \in BOOLEAN :
        (/\ Get(f, thread) \/ Wait(f, thread)
         /\ crashed' = ""
         /\ ~available(futures[f].st) /\ futures[f].promise # 0)
        => /\ thread
           /\ f \in blocked'
           /\ Len(tasks') = Len(tasks) + 1
           /\ tasks'[Len(tasks')].kind = "wake" /\ tasks'[Len(tasks')].wfor = f
           /\ promises'[futures[f].promise].task = Len(tasks')
           /\ queue' = queue

\* fulfilling the promise a wake task is attached to enqueues the task with
\* the outcome in its cell
FulfilStep ==
    \A p \in UserPromises : \A c \in {ValueCell(v) : v \in Values} \cup {ExcCell(e) : e \in Excs} :
        (/\ IF c.st = "result" THEN SetValue(p, c.v) ELSE SetException(p, c.ex)
         /\ crashed' = ""
         /\ promises[p].task # 0 /\ tasks[promises[p].task].kind = "wake")
        => /\ InQueue(queue', promises[p].task)
           /\ tasks'[promises[p].task].cell = c
           /\ tasks'[promises[p].task].wfor \in blocked'

\* a fiber is switched in only by its wake task, run with an available cell,
\* which is moved into the waiting future
ResumeStep ==
    \A f \in blocked :
        (f \notin blocked' /\ crashed' = "")
        => /\ queue # <<>>
           /\ LET t == Head(queue)
              IN /\ t \in WakeTaskOf(f)
                 /\ available(tasks[t].cell)
                 /\ tasks'[t].runs = 1 /\ ~tasks'[t].alive
                 /\ IF tasks[t].func = "wait"
                    THEN futures'[f].st = tasks[t].cell
                    ELSE chans'[futures[f].chan].got = Append(chans[futures[f].chan].got, tasks[t].cell)

\* C25: get() or wait() from a fiber on a pending future linked to its
\* promise attaches a one-shot wake task to the promise and switches the
\* fiber out; the fiber is never switched in while the cell is pending;
\* fulfilling the promise enqueues the wake task, whose run moves the cell
\* into the waiting future and switches the fiber in; and a reactor that
\* keeps running queued tasks eventually resumes the fiber once the wake task
\* is enqueued (unless the program aborts).
C25_FiberResumed ==
    /\ []FiberSuspended
    /\ [][SuspendStep /\ FulfilStep /\ ResumeStep]_vars
    /\ \A t \in 1..MaxOps :
           (t \in DOMAIN tasks /\ tasks[t].kind = "wake" /\ InQueue(queue, t))
           ~> (crashed # "" \/ (t \in DOMAIN tasks /\ tasks[t].runs = 1
                                /\ tasks[t].wfor \notin blocked))

C25_Witness ==
    /\ crashed = "" /\ blocked = {}
    /\ \E t \in DOMAIN tasks :
          /\ tasks[t].kind = "wake" /\ tasks[t].func = "" /\ tasks[t].runs = 1
          /\ tasks[t].enq = 1 /\ ~tasks[t].urgent
          /\ chans[tasks[t].chan].got = <<ExcCell("E1")>>


\* get() or wait() is called on f in this step
GetOrWait(f, thread) == Get(f, thread) \/ Wait(f, thread)

\* what the call does with and without a current fiber
SameWithoutFiber(f) ==
    /\ future_get(Heap, f, TRUE) = future_get(Heap, f, FALSE)
    /\ future_wait(Heap, f, TRUE) = future_wait(Heap, f, FALSE)

FiberStep ==
    \A f \in UserFutures : \A thread \in BOOLEAN :
        GetOrWait(f, thread) =>
            /\ crashed' = "assert_thread"
                   <=> (~thread /\ ~available(futures[f].st) /\ futures[f].promise # 0)
            /\ available(futures[f].st) =>
                   /\ crashed' = "" /\ blocked' = blocked /\ tasks' = tasks /\ queue' = queue
                   /\ SameWithoutFiber(f)
            /\ (futures[f].st = Pending /\ futures[f].promise = 0) =>
                   /\ crashed' = "" /\ blocked' = blocked /\ tasks' = tasks /\ queue' = queue
                   /\ SameWithoutFiber(f)
                   /\ \/ futures'[f].st = ExcCell(BrokenPromise)
                      \/ /\ futures'[f].st = Invalid
                         /\ chans'[futures[f].chan].got =
                                Append(chans[futures[f].chan].got, ExcCell(BrokenPromise))

\* C26: get() and wait() fail the assertion on the current fiber exactly
\* when called with no current fiber on a future that is not available and
\* is linked to its promise; on an available future no fiber is needed; on a
\* pending future with no promise the cell is set to broken_promise and the
\* call returns, with or without a fiber, without suspending.
C26_FiberNeededOnlyToBlock == [][FiberStep]_vars

C26_Witness ==
    /\ crashed = "assert_thread"
    /\ \E f \in DOMAIN futures :
          /\ futures[f].alive /\ futures[f].st = Pending
          /\ futures[f].promise # 0 /\ promises[futures[f].promise].alive
          /\ f \notin blocked
    /\ tasks = <<>>


\* ------------------------------------------------------- urgent enqueue
OutcomeCells == {ValueCell(v) : v \in Values} \cup {ExcCell(e) : e \in Excs}

\* promises that hold a continuation task
TaskHolders == {p \in DOMAIN promises : promises[p].alive /\ promises[p].task # 0}

\* what each way of fulfilling a promise that holds a task does with the
\* task: set_urgent_state prepends it iff need_preempt() is false, set_value
\* and set_exception append it; the promise lets go of cell and task
UrgentRule ==
    crashed = "" =>
    \A p \in TaskHolders :
        LET t == promises[p].task
        IN /\ \A c \in OutcomeCells : \A np \in BOOLEAN :
                  LET U == set_urgent_state(Heap, p, c, np)
                  IN /\ U.tk[t].urgent = ~np /\ U.tk[t].cell = c
                     /\ U.q = IF np THEN Append(queue, t) ELSE <<t>> \o queue
                     /\ U.pr[p].state = NullLoc /\ U.pr[p].task = 0
           /\ \A v \in Values :
                  LET S == set_value(Heap, p, v)
                  IN /\ ~S.tk[t].urgent /\ S.q = Append(queue, t)
                     /\ S.pr[p].state = NullLoc /\ S.pr[p].task = 0
           /\ \A e \in Excs :
                  LET S == set_exception(Heap, p, e)
                  IN /\ ~S.tk[t].urgent /\ S.q = Append(queue, t)
                     /\ S.pr[p].state = NullLoc /\ S.pr[p].task = 0

\* the step fulfils the promise holding task t through set_urgent_state, with
\* need_preempt() answering np: forward_to of an available future, by the
\* program or by a continuation handing on what its callable returned
UrgentPath(t, np) ==
    \/ \E f \in UserFutures : \E q \in UserPromises :
          promises[q].task = t /\ available(futures[f].st) /\ ForwardTo(f, q, np)
    \/ /\ queue # <<>>
       /\ LET T == tasks[Head(queue)]
          IN /\ T.kind = "wrapped" \/ (T.kind = "then" /\ T.cell.st = "result")
             /\ promises[T.prm].task = t
       /\ RunTask(np)

EnqueueStep ==
    \A t \in DOMAIN tasks :
        (tasks[t].attached /\ ~InQueue(queue, t) /\ InQueue(queue', t) /\ crashed' = "")
        => /\ \E p \in TaskHolders :
                 /\ promises[p].task = t
                 /\ promises'[p].task = 0 /\ promises'[p].state = NullLoc
           /\ tasks'[t].urgent <=> UrgentPath(t, FALSE)
           /\ tasks'[t].urgent => Head(queue') = t
           /\ ~tasks'[t].urgent => queue'[Len(queue')] = t

\* C27: a task held by a promise is prepended to the queue (urgent) if and
\* only if the promise is fulfilled through set_urgent_state, as forward_to
\* of an available future does, while need_preempt() is false; set_value,
\* set_exception and the urgent path under need_preempt() append it; either
\* way the promise's cell pointer is cleared when the task is enqueued.
C27_UrgentEnqueue == []UrgentRule /\ [][EnqueueStep]_vars

C27_Witness ==
    /\ crashed = ""
    /\ \E u \in DOMAIN tasks :
          /\ queue = <<u>>
          /\ tasks[u].attached /\ tasks[u].urgent /\ tasks[u].enq = 1 /\ tasks[u].runs = 0
          /\ available(tasks[u].cell)
          /\ \A p \in DOMAIN promises : promises[p].task = 0


\* ------------------------------------------- promise destroyed unfulfilled
BrokenCell == ExcCell(BrokenPromise)

\* destroying a promise that still holds a continuation enqueues the
\* continuation with broken_promise in its cell
AbandonStep ==
    \A p \in TaskHolders \cap UserPromises :
        (DestroyPromise(p) /\ crashed' = "")
        => LET t == promises[p].task
           IN /\ tasks[t].cell = Pending
              /\ tasks'[t].cell = BrokenCell
              /\ queue' = Append(queue, t)
              /\ tasks'[t].runs = 0

\* running a continuation whose cell holds broken_promise: then() passes it
\* to the future it returned without calling the callable, then_wrapped()
\* hands it to the callable, a fiber blocked in get() has it raised
AbandonedRunStep ==
    \A np \in BOOLEAN :
        (/\ RunTask(np) /\ crashed' = ""
         /\ tasks[Head(queue)].attached
         /\ tasks[Head(queue)].cell = BrokenCell)
        => LET t == Head(queue)
               T == tasks[t]
           IN /\ tasks'[t].runs = 1 /\ ~tasks'[t].alive
              /\ T.kind = "then" =>
                     /\ chans'[T.chan].calls = 0
                     /\ promises[T.prm].future # 0 =>
                            futures'[promises[T.prm].future].st = BrokenCell
                     /\ promises[T.prm].task # 0 =>
                            /\ InQueue(queue', promises[T.prm].task)
                            /\ tasks'[promises[T.prm].task].cell = BrokenCell
              /\ T.kind = "wrapped" =>
                     chans'[T.chan].calls = 1 /\ chans'[T.chan].arg = BrokenCell
              /\ T.kind = "wake" =>
                     /\ T.wfor \notin blocked'
                     /\ chans'[T.chan].got = Append(chans[T.chan].got, BrokenCell)

\* C28: a promise destroyed while it holds a continuation (of then,
\* then_wrapped or a blocked get) and before any value or exception was set
\* enqueues the continuation with broken_promise in its cell; a reactor that
\* keeps running queued tasks eventually runs it (unless the program
\* aborts), and that run resolves the future then() returned with
\* broken_promise.
C28_AbandonedContinuationRuns ==
    /\ [][AbandonStep /\ AbandonedRunStep]_vars
    /\ \A t \in 1..MaxOps :
           (/\ t \in DOMAIN tasks /\ tasks[t].attached
            /\ InQueue(queue, t) /\ tasks[t].cell = BrokenCell)
           ~> (crashed # "" \/ (t \in DOMAIN tasks /\ tasks[t].runs = 1))

C28_Witness ==
    /\ crashed = ""
    /\ \E t \in DOMAIN tasks : \E r \in DOMAIN futures :
          /\ tasks[t].kind = "then" /\ tasks[t].attached /\ tasks[t].runs = 1
          /\ chans[chans[tasks[t].chan].src].set1 = Pending
          /\ chans[tasks[t].chan].calls = 0
          /\ futures[r].alive /\ futures[r].chan = tasks[t].chan
          /\ futures[r].st = BrokenCell


\* ----------------------------------------------------------- or_terminate
MaxTerm == 1

\* engine_exit (declared only): the process ends with the failure as its
\* diagnostic
engine_exit(H, e) == Abort(H, "engine_exit:" \o e)

\* an or_terminate lambda that swallows the failure
or_terminate_lambda_swallows(H, c, k) ==
    IF ~Ok(H) THEN H
    ELSE IF c.st = "invalid" THEN Abort(H, "assert_set_exception_pending")
    ELSE make_future(NoteHandled(H, k, c), EmptyValue, k)

\* the lambda of future::or_terminate applied to a future holding c, through
\* futurize<void>::apply: its last future is the ready future<> returned
or_terminate_lambda(H, c, k) ==
    IF ~Ok(H) THEN H
    ELSE IF c.st = "invalid" THEN Abort(H, "assert_set_exception_pending")
    ELSE IF failed(c) THEN engine_exit(NoteCall(NoteHandled(H, k, c), k, c), c.ex)
    ELSE make_future(NoteHandled(H, k, c), EmptyValue, k)

\* future::or_terminate: then_wrapped_impl on the lambda
or_terminate(H, f, np) ==
    IF ~Ok(H) THEN H
    ELSE LET c == H.fu[f].st
             k == Len(H.ch) + 1
             Ha == [H EXCEPT !.ch[H.fu[f].chan].consumed = TRUE]
             H0 == [Ha EXCEPT !.ch = Append(@, NewChan("terminate", H.fu[f].chan, ""))]
         IN IF available(c) /\ ~np
            THEN or_terminate_lambda([get_available_state(H0, f) EXCEPT !.ch[k].inl = TRUE], c, k)
            ELSE LET pr == Len(H0.pr) + 1
                     H2 == get_future(AllocPromise(H0, k, FALSE), pr)
                 IN future_schedule(H2, f, NewTask("terminate", "", pr, Pending, 0, k))

\* continuation::run_and_dispose for the continuation then_wrapped_impl
\* scheduled: the lambda, forward_to the result promise, delete this
terminate_run_and_dispose(H, t, np) ==
    LET T == H.tk[t]
        H1 == or_terminate_lambda([H EXCEPT !.tk[t].cell = Invalid], T.cell, T.chan)
        tmp == Len(H1.fu)
        H2 == IF ~Ok(H1) THEN H1 ELSE destroy_future(forward_to(H1, tmp, T.prm, np), tmp)
        H3 == destroy_promise(H2, T.prm)
    IN IF ~Ok(H3) THEN H3 ELSE [H3 EXCEPT !.tk[t].alive = FALSE, !.tk[t].cell = Invalid]

OrTerminate(f, np) ==
    /\ crashed = ""
    /\ ops < MaxOps
    /\ ThenCalls < MaxTerm
    /\ Commit(or_terminate(Heap, f, np))
    /\ ops' = ops + 1
    /\ UNCHANGED ran

RunTermTask(np) ==
    /\ crashed = ""
    /\ queue # <<>>
    /\ LET t == Head(queue)
           H == [Heap EXCEPT !.q = Tail(@), !.tk[t].runs = @ + 1]
       IN Commit(terminate_run_and_dispose(H, t, np))
    /\ ran' = ran + 1
    /\ UNCHANGED ops

NextTerm ==
    \/ \E p \in UserPromises : GetFuture(p)
    \/ \E p \in UserPromises, v \in Values : SetValue(p, v)
    \/ \E p \in UserPromises, e \in HandleExcs : SetException(p, e)
    \/ \E p \in UserPromises : DestroyPromise(p)
    \/ \E f \in UserFutures : MoveFuture(f)
    \/ \E f \in UserFutures : DestroyFuture(f)
    \/ \E f \in UserFutures, np \in BOOLEAN : OrTerminate(f, np)
    \/ \E np \in BOOLEAN : RunTermTask(np)

TermSpec == Init /\ [][NextTerm]_vars

TermChans == {j \in DOMAIN chans : chans[j].kind = "terminate"}

\* the continuation scheduled for or_terminate call j has run
TermRan(j) ==
    \E t \in DOMAIN tasks : tasks[t].kind = "terminate" /\ tasks[t].chan = j /\ tasks[t].runs > 0

\* the future or_terminate call j returned, until the program moves from it
TermResults(j) ==
    {r \in DOMAIN futures : futures[r].alive /\ futures[r].chan = j /\ ~chans[j].consumed
                            /\ futures[r].st # Invalid}

\* the outcome or_terminate call j found in its future: what was set on the
\* source when nothing else was done with it
TermSource(j) ==
    LET s == chans[j].src
        sole == s # 0 /\ \A i \in DOMAIN chans : chans[i].src = s => i = j
    IN chans[j].got # <<>> =>
          /\ available(chans[j].got[1])
          /\ (sole /\ available(chans[s].set1) /\ ~chans[s].setMulti)
                 => chans[j].got[1] = chans[s].set1

Exited == \E e \in HandleExcs \cup {BrokenPromise} : crashed = "engine_exit:" \o e

\* C29: F.or_terminate() returns a future<>; engine_exit is called, with
\* F's failure, exactly when F resolves with a failure; when F resolves with
\* a value engine_exit is not called and the returned future holds the empty
\* value.
C29_OrTerminate ==
    /\ crashed = "" =>
          \A j \in TermChans :
              /\ TermSource(j)
              /\ Len(chans[j].got) = (IF chans[j].inl \/ TermRan(j) THEN 1 ELSE 0)
              /\ chans[j].calls = 0
              /\ chans[j].got # <<>> => chans[j].got[1].st = "result"
              /\ \A r \in TermResults(j) :
                     futures[r].st = IF chans[j].got # <<>> THEN EmptyValue ELSE Pending
    /\ Exited =>
          \E j \in TermChans :
              /\ TermSource(j)
              /\ chans[j].inl \/ TermRan(j)
              /\ chans[j].calls = 1
              /\ chans[j].got = <<chans[j].arg>>
              /\ failed(chans[j].arg)
              /\ crashed = "engine_exit:" \o chans[j].arg.ex
              /\ \A i \in TermChans \ {j} :
                     chans[i].got # <<>> => chans[i].got[1].st = "result"

\* the scheduled continuation found E2 and ended the process
C29_Witness ==
    /\ crashed = "engine_exit:E2"
    /\ \E j \in TermChans :
          /\ TermRan(j) /\ ~chans[j].inl
          /\ chans[chans[j].src].set1 = ExcCell("E2")
          /\ chans[j].arg = ExcCell("E2")


\* ------------------------------------------ then under need_preempt()
\* then / then_wrapped is called on f with need_preempt() answering TRUE
ThenPreempted(f) ==
    \/ \E func \in Funcs : Then(f, func, TRUE)
    \/ \E func \in WrappedFuncs : ThenWrapped(f, func, TRUE)

\* on an available future the call does not run the callable: the cell goes
\* into a new continuation appended to the queue, and the future returned is
\* pending, linked to the promise the continuation holds
PreemptedStep ==
    \A f \in UserFutures :
        (ThenPreempted(f) /\ available(futures[f].st) /\ crashed' = "")
        => LET j == Len(chans) + 1
               r == Len(futures) + 1
               t == Len(tasks) + 1
           IN /\ Len(chans') = j /\ Len(futures') = r /\ Len(tasks') = t
              /\ chans'[j].calls = 0 /\ ~chans'[j].inl
              /\ tasks'[t].chan = j /\ tasks'[t].kind = chans'[j].kind
              /\ tasks'[t].cell = futures[f].st
              /\ futures'[f].st = Invalid
              /\ queue' = Append(queue, t)
              /\ ~tasks'[t].urgent /\ tasks'[t].enq = 1 /\ tasks'[t].runs = 0
              /\ futures'[r].st = Pending
              /\ futures'[r].promise = tasks'[t].prm
              /\ promises'[tasks'[t].prm].state = FutLoc(r)

\* the callable of a call that was not run inline is called only by the
\* reactor running the call's continuation
CalledByTask ==
    /\ \A j \in DOMAIN chans :
           (chans[j].kind \in {"then", "wrapped"} /\ ~chans[j].inl /\ chans[j].calls > 0)
           => \E t \in DOMAIN tasks :
                  tasks[t].chan = j /\ tasks[t].kind = chans[j].kind /\ tasks[t].runs > 0

CalledStep ==
    \A j \in DOMAIN chans :
        (chans[j].kind \in {"then", "wrapped"} /\ chans'[j].calls # chans[j].calls)
        => /\ queue # <<>>
           /\ tasks[Head(queue)].chan = j
           /\ tasks[Head(queue)].kind = chans[j].kind
           /\ \E np \in BOOLEAN : RunTask(np)

\* C30: then(f) and then_wrapped(f) on an available future while
\* need_preempt() is true do not call f before returning: the cell is moved
\* into a new continuation appended to the queue by the normal enqueue, the
\* future returned is pending, and f is called only when the reactor runs
\* that continuation.
C30_PreemptDefers == []CalledByTask /\ [][PreemptedStep /\ CalledStep]_vars

C30_Witness ==
    /\ crashed = ""
    /\ \E t \in DOMAIN tasks : \E r \in DOMAIN futures :
          /\ tasks[t].kind = "wrapped" /\ ~tasks[t].attached
          /\ queue = <<t>> /\ tasks[t].runs = 0 /\ ~tasks[t].urgent
          /\ tasks[t].cell = ExcCell("E1")
          /\ chans[tasks[t].chan].calls = 0
          /\ futures[r].alive /\ futures[r].chan = tasks[t].chan /\ futures[r].st = Pending
          /\ futures[r].promise = tasks[t].prm


\* ------------------------------------------------- attaching continuations
\* then, then_wrapped or get is applied to f in this step
Observes(f) ==
    \/ \E func \in Funcs, np \in BOOLEAN : Then(f, func, np)
    \/ \E func \in WrappedFuncs, np \in BOOLEAN : ThenWrapped(f, func, np)
    \/ \E thread \in BOOLEAN : Get(f, thread)

\* the task each promise holds, the promises the step creates holding none
TasksHeldBefore == [q \in DOMAIN promises' |-> IF q \in DOMAIN promises THEN promises[q].task ELSE 0]

AttachStep ==
    \A f \in UserFutures :
        (Observes(f) /\ crashed' = "")
        => LET p == futures[f].promise
               t == Len(tasks) + 1
           IN IF ~available(futures[f].st) /\ p # 0
              THEN /\ Len(tasks') = t
                   /\ tasks'[t].attached /\ tasks'[t].cell = Pending
                   /\ promises'[p].task = t
                   /\ promises'[p].state = TaskLoc(t)
                   /\ promises'[p].future = 0
                   /\ futures'[f].promise = 0
                   /\ queue' = queue
                   /\ \A q \in DOMAIN promises' :
                          q # p => promises'[q].task = TasksHeldBefore[q]
              ELSE /\ \A q \in DOMAIN promises' : promises'[q].task = TasksHeldBefore[q]
                   /\ \A u \in DOMAIN tasks' : u \notin DOMAIN tasks => ~tasks'[u].attached

\* a task a promise holds is one attached to it: the promise's cell pointer
\* addresses the task's cell, which is pending, and no future is linked
HeldTasks ==
    \A p \in DOMAIN promises :
        promises[p].task # 0 =>
            /\ tasks[promises[p].task].attached
            /\ promises[p].state = TaskLoc(promises[p].task)
            /\ promises[p].future = 0
            /\ tasks[promises[p].task].cell = Pending
            /\ ~InQueue(queue, promises[p].task)

\* C31: then, then_wrapped and a blocking get attach a continuation to the
\* promise exactly when the future is not available and has a promise;
\* attaching unlinks the future, puts the pending cell in the new task and
\* points the promise's cell pointer at it; otherwise nothing is attached to
\* any promise.
C31_AttachIffPendingLinked == []HeldTasks /\ [][AttachStep]_vars

C31_Witness ==
    /\ crashed = ""
    /\ \E p \in DOMAIN promises : \E f \in DOMAIN futures :
          /\ promises[p].user /\ promises[p].task # 0
          /\ tasks[promises[p].task].kind = "wrapped"
          /\ promises[p].state = TaskLoc(promises[p].task)
          /\ futures[f].alive /\ futures[f].chan = promises[p].chan
          /\ futures[f].promise = 0 /\ futures[f].st = Pending


\* ------------------------------------------------ one continuation per future
\* the then / then_wrapped calls made on the future of channel s
CallsOn(s) == {j \in DOMAIN chans : chans[j].src = s /\ chans[j].kind \in {"then", "wrapped"}}

\* channels whose future is one object: it was never moved
OneObject(s) == Cardinality({f \in DOMAIN futures : futures[f].chan = s}) = 1

\* the continuation created for call j
ContinuationOf(j) ==
    {t \in DOMAIN tasks : tasks[t].chan = j /\ tasks[t].kind \in {"then", "wrapped"}}

\* C32: at most one continuation is attached to a future over its lifetime:
\* once then or then_wrapped was applied to a future object, a later then or
\* then_wrapped on the same object creates, enqueues and runs no continuation.
C32_OneContinuation ==
    crashed = "" =>
    \A s \in DOMAIN chans :
        OneObject(s) =>
            \A i \in CallsOn(s) : \A j \in CallsOn(s) : i < j => ContinuationOf(j) = {}


\* ------------------------------------------- forward_to and fulfilment
\* set_value or set_exception on p, by the outcome c it stores
SetOn(H, p, c) == IF c.st = "result" THEN set_value(H, p, c.v) ELSE set_exception(H, p, c.ex)

\* pairs (f, q): f is pending and linked to a promise of the program, q is
\* another promise of the program whose cell is still pending
ForwardPairs ==
    {x \in UserFutures \X UserPromises :
        /\ futures[x[1]].st = Pending
        /\ futures[x[1]].promise \in UserPromises \ {x[2]}
        /\ promises[x[2]].state # NullLoc
        /\ CellAt(Heap, promises[x[2]].state) = Pending}

\* the outcome that reaches the consumer side of q in heap H: the cell q's
\* pointer addressed, or, when q had not given its future yet, the cell of
\* the future that promise p, standing for q, gives
OutcomeAt(H, q, p) ==
    IF promises[q].state = LocalLoc(q)
    THEN LET G == get_future(H, p) IN IF Ok(G) THEN G.fu[Len(G.fu)].st ELSE Invalid
    ELSE CellAt(H, promises[q].state)

\* forwarding first and fulfilling afterwards, or fulfilling first and
\* forwarding afterwards, puts the same outcome on q's consumer side
Commutes ==
    crashed = "" =>
    \A x \in ForwardPairs : \A c \in OutcomeCells : \A np \in BOOLEAN :
        LET f == x[1]
            q == x[2]
            P == futures[f].promise
            A == SetOn(forward_to(Heap, f, q, np), P, c)
            B == forward_to(SetOn(Heap, P, c), f, q, np)
            tq == promises[q].task
        IN /\ Ok(A) /\ Ok(B)
           /\ OutcomeAt(A, q, P) = c
           /\ OutcomeAt(B, q, q) = c
           /\ tq # 0 =>
                  /\ A.q = Append(queue, tq)
                  /\ B.q = IF np THEN Append(queue, tq) ELSE <<tq>> \o queue
           /\ tq = 0 => (A.q = queue /\ B.q = queue)
           /\ A.tk = B.tk \/ tq # 0
           /\ Len(A.tk) = Len(tasks) /\ Len(B.tk) = Len(tasks)

\* forward_to on a pending future: the future's promise is overwritten by q
\* and takes over q's future, cell pointer and task; no task is created and
\* nothing is enqueued
ForwardPendingStep ==
    \A f \in UserFutures : \A q \in UserPromises : \A np \in BOOLEAN :
        (ForwardTo(f, q, np) /\ ~available(futures[f].st) /\ crashed' = "")
        => LET P == futures[f].promise
           IN /\ tasks' = tasks /\ queue' = queue
              /\ futures'[f].promise = 0
              /\ promises'[P].future = promises[q].future
              /\ promises'[P].task = promises[q].task
              /\ promises'[P].state = IF promises[q].state = LocalLoc(q) THEN LocalLoc(P)
                                      ELSE promises[q].state
              /\ promises[q].future # 0 => futures'[promises[q].future].promise = P
              /\ promises'[q].future = 0 /\ promises'[q].task = 0
              /\ promises'[q].state = NullLoc

\* C33: forward_to commutes with fulfilment: the future of the target
\* promise q ends with the same outcome whether F.forward_to(q) comes before
\* or after the fulfilment of F's promise P; before, P is overwritten by q
\* and takes over q's future, cell pointer and task, no task is created or
\* enqueued, and a continuation attached to q is enqueued when P is
\* fulfilled.
C33_ForwardCommutes == []Commutes /\ [][ForwardPendingStep]_vars

C33_Witness ==
    /\ crashed = ""
    /\ \E P \in UserPromises : \E fq \in DOMAIN futures : \E f \in DOMAIN futures :
          /\ promises[P].gave = "reassigned"
          /\ promises[P].future = fq /\ futures[fq].alive
          /\ futures[fq].st = ValueCell(2)
          /\ chans[futures[fq].chan].set1 = ValueCell(2)
          /\ f # fq /\ futures[f].alive /\ futures[f].promise = 0 /\ futures[f].st = Pending
          /\ futures[f].chan # futures[fq].chan


\* ------------------------------------- then with a callable returning a future
\* callables given to then() that return a future G: ready with v + 1,
\* failed, thrown before any future exists, or still pending ("g_pending"
\* makes a promise, keeps it for the program to fulfil, and returns its
\* future)
ThenFutFuncs == {"g_ready", "g_failed", "g_throw", "g_pending"}
MaxThenFut == 1

\* futurize<future<T>>::apply(func, v): the future it returns is the last of
\* H.fu
then_future_apply(H, func, v, k) ==
    IF ~Ok(H) THEN H
    ELSE CASE func = "g_ready" -> make_future(H, ValueCell(v + 1), k)
           [] func = "g_failed" -> make_future(H, ExcCell(FutExc), k)
           [] func = "g_throw" -> make_future(H, ExcCell(FuncExc), k)
           [] OTHER -> get_future(AllocPromise(H, k, TRUE), Len(H.pr) + 1)

\* a continuation lambda that hands on only a future that is already
\* available and drops one that is still pending
then_fut_lambda_drops_pending(H, t, np) ==
    LET T == H.tk[t]
        c == T.cell
    IN IF failed(c)
       THEN set_exception(NoteSet([H EXCEPT !.tk[t].cell = Invalid], T.prm, c), T.prm, c.ex)
       ELSE IF c.st # "result" THEN Abort(H, "assert_get_value")
       ELSE LET H1 == then_future_apply(NoteCall([H EXCEPT !.tk[t].cell = Invalid], T.chan, c),
                                        T.func, c.v, T.chan)
                tmp == Len(H1.fu)
            IN IF available(H1.fu[tmp].st)
               THEN destroy_future(forward_to(H1, tmp, T.prm, np), tmp)
               ELSE destroy_future(H1, tmp)

\* the lambda then_impl hands to schedule(), for a callable of ThenFutFuncs
then_fut_lambda(H, t, np) ==
    LET T == H.tk[t]
        c == T.cell
    IN IF failed(c)
       THEN set_exception(NoteSet([H EXCEPT !.tk[t].cell = Invalid], T.prm, c), T.prm, c.ex)
       ELSE IF c.st # "result" THEN Abort(H, "assert_get_value")
       ELSE LET H1 == then_future_apply(NoteCall([H EXCEPT !.tk[t].cell = Invalid], T.chan, c),
                                        T.func, c.v, T.chan)
                tmp == Len(H1.fu)
            IN destroy_future(forward_to(H1, tmp, T.prm, np), tmp)

\* future::then_impl for a callable of ThenFutFuncs
then_fut(H, f, func, np) ==
    IF ~Ok(H) THEN H
    ELSE LET c == H.fu[f].st
             k == Len(H.ch) + 1
             Ha == [H EXCEPT !.ch[H.fu[f].chan].consumed = TRUE]
             H0 == [Ha EXCEPT !.ch = Append(@, NewChan("then_fut", H.fu[f].chan, func))]
         IN IF available(c) /\ ~np
            THEN LET H1 == [get_available_state(H0, f) EXCEPT !.ch[k].inl = TRUE]
                 IN IF failed(c) THEN make_future(H1, ExcCell(c.ex), k)
                    ELSE then_future_apply(NoteCall(H1, k, c), func, c.v, k)
            ELSE LET pr == Len(H0.pr) + 1
                     H2 == get_future(AllocPromise(H0, k, FALSE), pr)
                 IN future_schedule(H2, f, NewTask("then_fut", func, pr, Pending, 0, k))

\* continuation::run_and_dispose: the lambda, then delete this, which
\* destroys the promise the lambda captured
then_fut_run_and_dispose(H, t, np) ==
    LET H1 == then_fut_lambda(H, t, np)
        H2 == destroy_promise(H1, H.tk[t].prm)
    IN IF ~Ok(H2) THEN H2 ELSE [H2 EXCEPT !.tk[t].alive = FALSE, !.tk[t].cell = Invalid]

ThenFut(f, func, np) ==
    /\ crashed = ""
    /\ ops < MaxOps
    /\ ThenCalls < MaxThenFut
    /\ Commit(then_fut(Heap, f, func, np))
    /\ ops' = ops + 1
    /\ UNCHANGED ran

RunThenFutTask(np) ==
    /\ crashed = ""
    /\ queue # <<>>
    /\ LET t == Head(queue)
           H == [Heap EXCEPT !.q = Tail(@), !.tk[t].runs = @ + 1]
       IN Commit(then_fut_run_and_dispose(H, t, np))
    /\ ran' = ran + 1
    /\ UNCHANGED ops

NextThenFut ==
    \/ \E p \in UserPromises : GetFuture(p)
    \/ \E p \in UserPromises, v \in Values : SetValue(p, v)
    \/ \E p \in UserPromises, e \in Excs : SetException(p, e)
    \/ \E p \in UserPromises : DestroyPromise(p)
    \/ \E f \in UserFutures : DestroyFuture(f)
    \/ \E f \in UserFutures, func \in ThenFutFuncs, np \in BOOLEAN : ThenFut(f, func, np)
    \/ \E np \in BOOLEAN : RunThenFutTask(np)

ThenFutSpec == Init /\ [][NextThenFut]_vars

\* scheduled then() calls whose continuation has run and called the callable
ThenFutCalled ==
    {j \in DOMAIN chans :
        /\ chans[j].kind = "then_fut" /\ ~chans[j].inl /\ chans[j].calls = 1
        /\ \E t \in DOMAIN tasks : tasks[t].chan = j /\ tasks[t].runs = 1}

\* the outcome of the future G the callable of call j returned: what it was
\* made with, or what became of the promise the callable kept
OutcomeOfG(j) ==
    CASE chans[j].func = "g_ready" -> ValueCell(chans[j].arg.v + 1)
      [] chans[j].func = "g_failed" -> ExcCell(FutExc)
      [] chans[j].func = "g_throw" -> ExcCell(FuncExc)
      [] OTHER -> IF chans[j].broken /\ chans[j].set1 = Pending THEN ExcCell(BrokenPromise)
                  ELSE chans[j].set1

\* the future R call j returned, until the program moves from it
ThenFutResults(j) ==
    {r \in DOMAIN futures : futures[r].alive /\ futures[r].chan = j /\ ~chans[j].consumed}

\* C34: in the scheduled path of then(f), once the continuation has run and
\* f returned future G: when G was available, the future R returned by
\* then() holds G's outcome; when G was pending, R is pending until G's
\* promise is fulfilled (or destroyed) and holds G's outcome from then on.
\* Before the continuation has run R is pending.
C34_ThenReturningFuture ==
    crashed = "" =>
    \A j \in DOMAIN chans :
        (chans[j].kind = "then_fut" /\ ~chans[j].inl /\ ~chans[j].setMulti) =>
            \A r \in ThenFutResults(j) :
                IF j \in ThenFutCalled THEN futures[r].st = OutcomeOfG(j)
                ELSE chans[j].calls = 0 /\
                     (futures[r].st = Pending \/ \E t \in DOMAIN tasks :
                                                    tasks[t].chan = j /\ tasks[t].runs = 1)

\* G was pending when the continuation ran, its promise was fulfilled with 2
\* afterwards, and R holds 2
C34_Witness ==
    /\ crashed = ""
    /\ \E j \in ThenFutCalled : \E r \in ThenFutResults(j) :
          /\ chans[j].func = "g_pending"
          /\ chans[j].arg = ValueCell(1)
          /\ chans[j].set1 = ValueCell(2)
          /\ futures[r].st = ValueCell(2)


\* ------------------------------------------------------ null cell pointer
\* promises of the program whose cell pointer is null
NullPromises == {p \in UserPromises : promises[p].state = NullLoc}

\* set_value, set_exception and set_urgent_state on a promise whose cell
\* pointer is null change nothing and trip no assertion
NullNoOp ==
    crashed = "" =>
    \A p \in NullPromises :
        /\ \A v \in Values : set_value(Heap, p, v) = Heap
        /\ \A e \in Excs : set_exception(Heap, p, e) = Heap
        /\ \A c \in OutcomeCells : \A np \in BOOLEAN : set_urgent_state(Heap, p, c, np) = Heap

\* the calls made by the program change nothing but the history
NullSetStep ==
    \A p \in NullPromises :
        ((\E v \in Values : SetValue(p, v)) \/ (\E e \in Excs : SetException(p, e)))
        => /\ promises' = promises /\ futures' = futures /\ tasks' = tasks
           /\ queue' = queue /\ crashed' = "" /\ reports' = reports /\ blocked' = blocked

\* the steps that leave a promise with a null cell pointer: its future is
\* destroyed or consumed by get(), the promise is moved from, the promise
\* fulfils the continuation attached to it
NullingStep ==
    /\ \A f \in UserFutures :
           LET p == futures[f].promise
           IN p # 0 =>
                 /\ DestroyFuture(f) => promises'[p].state = NullLoc /\ promises'[p].future = 0
                 /\ \A thread \in BOOLEAN :
                        (Get(f, thread) /\ available(futures[f].st) /\ crashed' = "")
                        => promises'[p].state = NullLoc /\ promises'[p].future = 0
    /\ \A p \in UserPromises :
           /\ MovePromise(p) => promises'[p].state = NullLoc
           /\ (/\ promises[p].task # 0 /\ crashed' = ""
               /\ (\E v \in Values : SetValue(p, v)) \/ (\E e \in Excs : SetException(p, e)))
              => promises'[p].state = NullLoc /\ promises'[p].task = 0

\* C35: set_value, set_exception and set_urgent_state on a promise whose cell
\* pointer is null are no-ops: no cell changes, nothing is enqueued, no
\* assertion fires.  The cell pointer is null once the promise's future was
\* destroyed or consumed by get(), once the promise was moved from, and once
\* the promise has fulfilled the continuation attached to it.
C35_NullPointerNoOp == []NullNoOp /\ [][NullSetStep /\ NullingStep]_vars

\* set_value on the promise after get() consumed the future's value: the
\* call is recorded and nothing else changed
C35_Witness ==
    /\ crashed = ""
    /\ \E p \in NullPromises :
          /\ promises[p].chan # 0
          /\ chans[promises[p].chan].setMulti
          /\ chans[promises[p].chan].got = <<chans[promises[p].chan].set1>>
          /\ promises[p].gave = "yes"
    /\ tasks = <<>> /\ reports = <<>>


\* ------------------------------------------------------- no stale pointers
\* the cell pointer of promise p is null or addresses the promise's own
\* local cell, the cell of the live future linked to it, or the cell of the
\* task it holds and has not handed to the scheduler
PointsAtLiveCell(p) ==
    LET P == promises[p]
    IN \/ P.state = NullLoc
       \/ P.state = LocalLoc(p)
       \/ \E f \in DOMAIN futures :
              /\ P.state = FutLoc(f)
              /\ futures[f].alive /\ futures[f].promise = p /\ P.future = f
       \/ \E t \in DOMAIN tasks :
              /\ P.state = TaskLoc(t)
              /\ P.task = t /\ tasks[t].alive /\ tasks[t].runs = 0 /\ ~InQueue(queue, t)

\* the promise pointer of future f is null or addresses a live promise that
\* is linked to f
PointsAtLivePromise(f) ==
    LET p == futures[f].promise
    IN p # 0 => (promises[p].alive /\ promises[p].future = f)

NoStalePointer ==
    /\ \A p \in DOMAIN promises : promises[p].alive => PointsAtLiveCell(p)
    /\ \A f \in DOMAIN futures : futures[f].alive => PointsAtLivePromise(f)

\* an object that was moved from or destroyed is addressed by no pointer
\* afterwards, and a task handed to the scheduler by no cell pointer
LeftBehindStep ==
    /\ \A f \in UserFutures :
           (MoveFuture(f) \/ DestroyFuture(f)) =>
               \A p \in DOMAIN promises' :
                   promises'[p].alive => (promises'[p].state # FutLoc(f) /\ promises'[p].future # f)
    /\ \A p \in UserPromises :
           (MovePromise(p) \/ DestroyPromise(p)) =>
               /\ \A f \in DOMAIN futures' : futures'[f].alive => futures'[f].promise # p
               /\ \A x \in DOMAIN promises' : promises'[x].alive => promises'[x].state # LocalLoc(p)
    /\ \A t \in DOMAIN tasks' :
           InQueue(queue', t) =>
               \A p \in DOMAIN promises' :
                   promises'[p].alive => (promises'[p].state # TaskLoc(t) /\ promises'[p].task # t)

\* C36: a promise's cell pointer is null or addresses a cell that is still
\* alive: its own local cell, the cell of the live future it is linked to,
\* or the cell of the task it still owns; never the cell of a destroyed or
\* moved-from future nor of a task handed to the scheduler.  A future's
\* promise pointer never addresses a destroyed or moved-from promise.
C36_NoStalePointer == []NoStalePointer /\ [][LeftBehindStep]_vars

\* a moved-from future, a promise holding a task and pointing at its cell,
\* and the promise of the continuation linked to the future then() returned
C36_Witness ==
    /\ crashed = ""
    /\ \E g \in DOMAIN futures : futures[g].alive /\ futures[g].promise = 0 /\ futures[g].st = Invalid
    /\ \E p \in UserPromises : \E t \in DOMAIN tasks :
           promises[p].state = TaskLoc(t) /\ ~InQueue(queue, t)
    /\ \E p \in DOMAIN promises : \E f \in DOMAIN futures :
           /\ ~promises[p].user /\ promises[p].alive
           /\ promises[p].state = FutLoc(f) /\ futures[f].promise = p


\* -------------------------------------------- forward_to after abandonment
\* forward_to on a future that holds the broken_promise left by its
\* destroyed promise puts broken_promise into the cell q's pointer addresses
BrokenForwarded ==
    crashed = "" =>
    \A f \in UserFutures : \A q \in UserPromises : \A np \in BOOLEAN :
        (futures[f].st = BrokenCell /\ chans[futures[f].chan].broken
         /\ promises[q].state # NullLoc) =>
            LET H1 == forward_to(Heap, f, q, np)
            IN Ok(H1) /\ CellAt(H1, promises[q].state) = BrokenCell

\* no forward_to has applied detach_promise to a future without a promise
NoMissingLink == crashed # "null_promise_dereference"

\* C37: when F's promise was destroyed while F was pending, F.forward_to(q)
\* satisfies q with broken_promise, and forward_to never goes through a
\* missing promise link: detach_promise is applied only to a future that
\* has a linked promise.
C37_ForwardOfAbandoned == BrokenForwarded /\ NoMissingLink


\* ------------------------------------------------- outcomes are set once
\* promises of the program whose cell pointer addresses a stored outcome
FulfilledPromises ==
    {p \in UserPromises : promises[p].state # NullLoc /\ available(CellAt(Heap, promises[p].state))}

\* a second set_value / set_exception on a promise whose cell holds an
\* outcome trips the pending assertion of future_state::set /
\* future_state_base::set_exception and leaves the outcome as it was
SecondSetRejected ==
    crashed = "" =>
    \A p \in FulfilledPromises :
        /\ \A v \in Values :
               LET H1 == set_value(Heap, p, v)
               IN /\ H1.crashed = "assert_set_pending"
                  /\ CellAt(H1, promises[p].state) = CellAt(Heap, promises[p].state)
        /\ \A e \in Excs :
               LET H1 == set_exception(Heap, p, e)
               IN /\ H1.crashed = "assert_set_exception_pending"
                  /\ CellAt(H1, promises[p].state) = CellAt(Heap, promises[p].state)

\* forward_to of another available future into a promise whose cell holds
\* an outcome is rejected or leaves the outcome as it was
ForwardKeepsOutcome ==
    crashed = "" =>
    \A p \in FulfilledPromises : \A f \in UserFutures : \A np \in BOOLEAN :
        (available(futures[f].st) /\ futures[f].promise # p /\ promises[p].state # FutLoc(f)) =>
            LET H1 == forward_to(Heap, f, p, np)
            IN CellAt(H1, promises[p].state) = CellAt(Heap, promises[p].state)

\* C38: once a cell holds a value or a failure its outcome is never
\* replaced: a second set_value / set_exception on the same promise, or a
\* forward_to of another available future into that promise, is rejected by
\* the pending assertion or ignored.
C38_OutcomeNeverReplaced == SecondSetRejected /\ ForwardKeepsOutcome

====
